---- MODULE Spec2Model ----
(***************************************************************************)
(* Neon Defense: the tower-defense game of src/App.tsx (App: game state,   *)
(* wave start), src/components/UIOverlay.tsx (UIOverlay: buttons;          *)
(* GameCanvas: update, damageEnemy, createParticles, handleCanvasClick),   *)
(* src/services/geminiService.ts (generateWave, generateFallbackWave) and  *)
(* src/constants.ts (the stat tables and the path).                        *)
(*                                                                         *)
(* Numbers.  The program computes in floating point.  The model computes   *)
(* in fixed point: a length is an integer number of 1/UNIT pixels (all     *)
(* speeds and their halves are whole then), hit points and damage are      *)
(* integer numbers of 1/HP_UNIT points, an hp multiplier is a number of    *)
(* hundredths.  Comparisons of distances are made on the squares, which    *)
(* is exact; the only rounded quantity is the position of a projectile in  *)
(* flight (enemies move along axis-parallel segments, where the            *)
(* normalised direction is exact).                                         *)
(*                                                                         *)
(* React.  update() reads the gameState of the render it was created in    *)
(* and queues functional updates (setGameState(prev => ...)); the queued   *)
(* updates are applied, in order, before the next animation frame.  One    *)
(* action of the model is one handler together with the state updates it   *)
(* queued.                                                                 *)
(***************************************************************************)
EXTENDS Integers, Sequences, FiniteSets, TLC

\* ------------------------------------------------------------------ bounds
\* The enemies walk the first PathLen waypoints of the path of constants.ts.
PathLen == 2
\* startNextWave is offered while fewer than MaxWave waves were started.
MaxWave == 2
\* The canvas is clicked at any time while no wave is playing, and during a
\* wave only while frameCount < ClickFrames.
ClickFrames == 1
\* update() runs, while a wave is playing, for at most MaxFrames frames in all.
MaxFrames == 200
\* The waves of one group that WaveSpec starts from have 1..MaxCount enemies,
\* 1..MaxInterval frames apart.
MaxCount == 3
MaxInterval == 10
\* ServiceSpec calls the service for the waves 1..MaxWaveNumber, with API keys
\* of at most MaxKeyLen characters.
MaxWaveNumber == 20
MaxKeyLen == 2

\* ------------------------------------------------------------- fixed point
UNIT == 20
HP_UNIT == 100

\* --------------------------------------------------------------- constants
GRID_SIZE == 40
CANVAS_WIDTH == 800
CANVAS_HEIGHT == 600
INITIAL_MONEY == 120
INITIAL_LIVES == 20
PROJECTILE_SPEED == 10
SPLASH_RADIUS == 60
SLOW_FRAMES == 60

EnemyType == {"SCOUT", "GRUNT", "TANK", "BOSS"}
TowerType == {"BLASTER", "CANNON", "SNIPER", "SLOW"}
NoTower == "NONE"

\* speed in 1/UNIT pixels per frame (2.5, 1.5, 0.8, 0.4 pixels), hp in points
ENEMY_STATS ==
  [ SCOUT |-> [speed |-> (25 * UNIT) \div 10, hp |-> 30,   bounty |-> 5],
    GRUNT |-> [speed |-> (15 * UNIT) \div 10, hp |-> 80,   bounty |-> 10],
    TANK  |-> [speed |-> (8 * UNIT) \div 10,  hp |-> 300,  bounty |-> 30],
    BOSS  |-> [speed |-> (4 * UNIT) \div 10,  hp |-> 2000, bounty |-> 200] ]

\* range in pixels, damage in points, cooldown in frames
TOWER_STATS ==
  [ BLASTER |-> [range |-> 120, damage |-> 15,  cooldown |-> 20, cost |-> 50],
    SNIPER  |-> [range |-> 250, damage |-> 100, cooldown |-> 90, cost |-> 150],
    CANNON  |-> [range |-> 150, damage |-> 40,  cooldown |-> 60, cost |-> 200],
    SLOW    |-> [range |-> 100, damage |-> 2,   cooldown |-> 10, cost |-> 120] ]

\* history: a tower that never fired, or fired at least this many update()
\* calls ago: the longest cooldown of TOWER_STATS
LongAgo == 90

\* the grid cells of the path, as constants.ts lists them
PATH_CELLS ==
  << <<0, 2>>, <<5, 2>>, <<5, 8>>, <<12, 8>>, <<12, 4>>, <<18, 4>>,
     <<18, 10>>, <<8, 10>>, <<8, 13>>, <<20, 13>> >>

\* p => ({x: p.x * GRID_SIZE + GRID_SIZE / 2, ...}), in pixels
PATH_WAYPOINTS ==
  [ i \in 1..PathLen |->
      [ x |-> PATH_CELLS[i][1] * GRID_SIZE + GRID_SIZE \div 2,
        y |-> PATH_CELLS[i][2] * GRID_SIZE + GRID_SIZE \div 2 ] ]

\* ----------------------------------------------------------------- helpers
Abs(a) == IF a < 0 THEN -a ELSE a

\* a / b rounded towards zero
Quot(a, b) == IF a >= 0 THEN a \div b ELSE -((-a) \div b)

RECURSIVE SqrtFrom(_, _)
SqrtFrom(n, g) ==
  LET h == (g + n \div g) \div 2 IN IF h >= g THEN g ELSE SqrtFrom(n, h)

\* Math.sqrt, rounded down
Sqrt(n) == IF n = 0 THEN 0 ELSE SqrtFrom(n, n)

\* the square of dist(x1, y1, x2, y2)
Dist2(x1, y1, x2, y2) == (x2 - x1) * (x2 - x1) + (y2 - y1) * (y2 - y1)

RECURSIVE SumSeq(_)
SumSeq(s) == IF s = <<>> THEN 0 ELSE Head(s) + SumSeq(Tail(s))

Max(a, b) == IF a >= b THEN a ELSE b
Min(a, b) == IF a <= b THEN a ELSE b

\* ---------------------------------------------------------- wave generator
\* difficultyMult = 1 + waveNumber * 0.2, in hundredths
DifficultyMult(waveNumber) == 100 + waveNumber * 20

\* (a slip: a TANK group in every wave from the fourth)
FallbackEnemies_TankEveryWave(waveNumber) ==
  LET d == DifficultyMult(waveNumber) IN
    << [type |-> "GRUNT", count |-> (5 * d) \div 100,
        interval |-> Max(20, 60 - waveNumber * 2), hpMultiplier |-> d] >>
    \o (IF waveNumber >= 2
          THEN << [type |-> "SCOUT", count |-> (3 * d) \div 100,
                   interval |-> 40, hpMultiplier |-> (d * 8) \div 10] >>
          ELSE <<>>)
    \o (IF waveNumber >= 4
          THEN << [type |-> "TANK", count |-> (5 + waveNumber) \div 5,
                   interval |-> 100, hpMultiplier |-> (d * 15) \div 10] >>
          ELSE <<>>)
    \o (IF waveNumber % 10 = 0
          THEN << [type |-> "BOSS", count |-> 1,
                   interval |-> 200, hpMultiplier |-> d * 4] >>
          ELSE <<>>)

\* (a slip: a BOSS group in every fifth wave)
FallbackEnemies_BossEveryFifth(waveNumber) ==
  LET d == DifficultyMult(waveNumber) IN
    << [type |-> "GRUNT", count |-> (5 * d) \div 100,
        interval |-> Max(20, 60 - waveNumber * 2), hpMultiplier |-> d] >>
    \o (IF waveNumber >= 2
          THEN << [type |-> "SCOUT", count |-> (3 * d) \div 100,
                   interval |-> 40, hpMultiplier |-> (d * 8) \div 10] >>
          ELSE <<>>)
    \o (IF waveNumber >= 4 /\ waveNumber % 2 = 0
          THEN << [type |-> "TANK", count |-> (5 + waveNumber) \div 5,
                   interval |-> 100, hpMultiplier |-> (d * 15) \div 10] >>
          ELSE <<>>)
    \o (IF waveNumber % 5 = 0
          THEN << [type |-> "BOSS", count |-> 1,
                   interval |-> 200, hpMultiplier |-> d * 4] >>
          ELSE <<>>)

\* generateFallbackWave: the groups, hpMultiplier in hundredths
FallbackEnemies(waveNumber) ==
  LET d == DifficultyMult(waveNumber) IN
    << [type |-> "GRUNT", count |-> (5 * d) \div 100,
        interval |-> Max(20, 60 - waveNumber * 2), hpMultiplier |-> d] >>
    \o (IF waveNumber >= 2
          THEN << [type |-> "SCOUT", count |-> (3 * d) \div 100,
                   interval |-> 40, hpMultiplier |-> (d * 8) \div 10] >>
          ELSE <<>>)
    \o (IF waveNumber >= 4 /\ waveNumber % 2 = 0
          THEN << [type |-> "TANK", count |-> (5 + waveNumber) \div 5,
                   interval |-> 100, hpMultiplier |-> (d * 15) \div 10] >>
          ELSE <<>>)
    \o (IF waveNumber % 10 = 0
          THEN << [type |-> "BOSS", count |-> 1,
                   interval |-> 200, hpMultiplier |-> d * 4] >>
          ELSE <<>>)

generateFallbackWave(waveNumber) ==
  [briefing |-> "SIMULATION MODE", enemies |-> FallbackEnemies(waveNumber)]

\* Responses of the text-generation service that JSON.parse turns into a
\* WaveComposition: groups of a known type with integer count and interval.
\* Swarm: 19 scouts one frame apart, a grunt, and a scout that catches up
\* with the grunt.  Rush: 21 scouts one frame apart and a grunt long after them.
\* Patrol: two scouts.
Swarm ==
  [briefing |-> "AI",
   enemies |-> << [type |-> "SCOUT", count |-> 19, interval |-> 1, hpMultiplier |-> 10],
                  [type |-> "GRUNT", count |-> 1, interval |-> 1, hpMultiplier |-> 10],
                  [type |-> "SCOUT", count |-> 1, interval |-> 53, hpMultiplier |-> 10] >>]

Rush ==
  [briefing |-> "AI",
   enemies |-> << [type |-> "SCOUT", count |-> 21, interval |-> 1, hpMultiplier |-> 100],
                  [type |-> "GRUNT", count |-> 1, interval |-> 100, hpMultiplier |-> 100] >>]

Patrol ==
  [briefing |-> "AI",
   enemies |-> << [type |-> "SCOUT", count |-> 2, interval |-> 1, hpMultiplier |-> 100] >>]

AIResponses == {Swarm, Rush, Patrol}

\* ------------------------------------------------------------ the service
\* The process environment: whether process and process.env are defined, and
\* process.env.API_KEY, <<>> for undefined, <<key>> for a string of characters.
KeyChars == {" ", "k"}

Keys == UNION {[1..n -> KeyChars] : n \in 0..MaxKeyLen}

Envs ==
  { [process |-> FALSE, env |-> FALSE, API_KEY |-> <<>>],
    [process |-> TRUE, env |-> FALSE, API_KEY |-> <<>>],
    [process |-> TRUE, env |-> TRUE, API_KEY |-> <<>>] }
  \cup { [process |-> TRUE, env |-> TRUE, API_KEY |-> <<key>>] : key \in Keys }

\* an environment with a key
KeyEnv == [process |-> TRUE, env |-> TRUE, API_KEY |-> << <<"k">> >>]

\* String.prototype.trim
RECURSIVE TrimStart(_)
TrimStart(str) ==
  IF str # <<>> /\ Head(str) = " " THEN TrimStart(Tail(str)) ELSE str

RECURSIVE TrimEnd(_)
TrimEnd(str) ==
  IF str # <<>> /\ str[Len(str)] = " " THEN TrimEnd(SubSeq(str, 1, Len(str) - 1)) ELSE str

Trim(str) == TrimEnd(TrimStart(str))

\* (a slip: the key is not trimmed)
getApiKey_Untrimmed(e) ==
  IF e.process /\ e.env /\ e.API_KEY # <<>> /\ e.API_KEY[1] # <<>>
    THEN e.API_KEY
    ELSE <<>>

\* getApiKey: <<>> for undefined, <<key>> for the key
getApiKey(e) ==
  IF e.process /\ e.env /\ e.API_KEY # <<>> /\ e.API_KEY[1] # <<>>
    THEN IF Len(Trim(e.API_KEY[1])) > 0 THEN e.API_KEY ELSE <<>>
    ELSE <<>>

\* getClient: <<>> for null, <<client>> otherwise
getClient(e) ==
  IF getApiKey(e) = <<>> THEN <<>> ELSE <<[apiKey |-> getApiKey(e)[1]]>>

isAIOnline(e) == getApiKey(e) # <<>>

\* What ai.models.generateContent does: it rejects, or it resolves with a
\* response whose text is <<>> (undefined or "") or <<text>>.
Rejected == [kind |-> "rejected", text |-> <<>>]
Resolved(text) == [kind |-> "resolved", text |-> text]

\* A text of a wave response is known by what JSON.parse does with it: it
\* throws (json = <<>>) or returns a value (json = <<value>>).
NotJson == [json |-> <<>>]
Json(value) == [json |-> <<value>>]

\* JSON.parse(text): [threw |-> TRUE] or the value
JSONparse(text) ==
  IF text.json = <<>> THEN [threw |-> TRUE, value |-> <<>>]
                      ELSE [threw |-> FALSE, value |-> text.json[1]]

\* Values that are no WaveComposition: no enemies, an enemy type that does
\* not exist, a group without count and interval.
Malformed ==
  { [briefing |-> "AI"],
    [briefing |-> "AI",
     enemies |-> << [type |-> "DRAGON", count |-> 1, interval |-> 1, hpMultiplier |-> 100] >>],
    [briefing |-> "AI", enemies |-> << [type |-> "SCOUT", hpMultiplier |-> 100] >>] }

\* the responses to the wave request that yield a WaveComposition or the fallback
WaveResponses == {Rejected} \cup {Resolved(<<Json(c)>>) : c \in AIResponses}

\* all the responses to the wave request
AllWaveResponses ==
  WaveResponses \cup {Resolved(<<>>), Resolved(<<NotJson>>)}
  \cup {Resolved(<<Json(v)>>) : v \in Malformed}

\* startNextWave: diffMod = 1.0 + nextWave * 0.15, in hundredths
diffMod(nextWave) == 100 + nextWave * 15

\* generateWave(waveNumber, difficultyMod): the value the promise resolves to,
\* and whether generateContent was called; difficultyMod goes into the prompt
\* of the request and nowhere else
generateWave(e, waveNumber, difficultyMod, response) ==
  IF getClient(e) = <<>>
    THEN [value |-> generateFallbackWave(waveNumber), requested |-> FALSE]
    ELSE IF response.kind = "rejected" \/ response.text = <<>>
              \/ JSONparse(response.text[1]).threw
      THEN [value |-> generateFallbackWave(waveNumber), requested |-> TRUE]
      ELSE [value |-> JSONparse(response.text[1]).value, requested |-> TRUE]

fallbackQuotes ==
  << "Simulation Mode: Rely on standard combat protocols.",
     "Neural Link Offline: Commander, proceed with manual targeting.",
     "Pattern Analysis: Enemy density increasing.",
     "Resource Alert: Optimize spending for maximum efficiency.",
     "Local Sensors: Hostiles approaching from the vector." >>

\* the responses to the advice request
AdviceResponses == {Rejected, Resolved(<<>>), Resolved(<<"Hold the line.">>)}

\* getTacticalAdvice(wave, money, lives, towers): the string the promise
\* resolves to, and whether generateContent was called
getTacticalAdvice(e, wave, response) ==
  IF getClient(e) = <<>>
    THEN [value |-> fallbackQuotes[(wave % Len(fallbackQuotes)) + 1], requested |-> FALSE]
    ELSE IF response.kind = "rejected"
      THEN [value |-> "Tactical uplink unstable.", requested |-> TRUE]
      ELSE IF response.text = <<>>
        THEN [value |-> "Systems compromised. No tactical data.", requested |-> TRUE]
        ELSE [value |-> response.text[1], requested |-> TRUE]

\* ------------------------------------------------------------------- state
VARIABLES
  gameState,        \* App: money, lives, wave, isPlaying, isGameOver
  selectedTower,    \* App: a TowerType, or NoTower for null
  waveComposition,  \* App: <<>> for null, <<composition>> otherwise
  isWaveGenerating, \* App
  pendingWave,      \* nextWave of the startNextWave that awaits generateWave, 0 if none
  aiAdvice,         \* App
  pendingAdvice,    \* the waves whose getTacticalAdvice promise has not resolved
  enemies,          \* GameCanvas.enemiesRef
  towers,           \* GameCanvas.towersRef
  projectiles,      \* GameCanvas.projectilesRef
  particles,        \* GameCanvas.particlesRef
  frameCount,       \* GameCanvas.frameCountRef
  spawnIndex,       \* GameCanvas.spawnIndexRef
  spawnTimer,       \* GameCanvas.spawnTimerRef
  enemiesToSpawn,   \* GameCanvas.enemiesToSpawnRef
  nextId,           \* the next fresh enemy id (Math.random().toString(36))
  lastEvent,        \* history: what the last handler did
  credited,         \* history: the ids of the enemies a bounty was credited for
  leakedIds,        \* history: the ids of the enemies a life was taken for
  waveSignals,      \* history: onWaveComplete calls since the wave started
  waveFrames,       \* history: update() calls that ran since the wave started
  waveSpawned,      \* history: enemies created since the wave started
  sinceShot,        \* history: per tower, update() calls that ran since it last fired
  adviceFor,        \* history: the wave aiAdvice was requested for, 0 if for none
  env,              \* the process environment of the service
  call,             \* history: the last call of the service made on its own
  inFrame,          \* the render loop is between update() and draw()
  twin              \* history: a first run of a wave, for the run compared with it

appVars == <<gameState, selectedTower, waveComposition, isWaveGenerating, pendingWave,
             aiAdvice, pendingAdvice>>
canvasVars == <<enemies, towers, projectiles, particles, frameCount, spawnIndex,
                spawnTimer, enemiesToSpawn, nextId>>
histVars == <<lastEvent, credited, leakedIds, waveSignals, waveFrames, sinceShot, waveSpawned, adviceFor,
             sinceShot>>
svcVars == <<env, call>>
vars == <<appVars, canvasVars, histVars, svcVars, inFrame, twin>>

NoEvent ==
  [kind |-> "init", ran |-> FALSE, result |-> "", spawned |-> 0, leaked |-> <<>>,
   bounties |-> <<>>, fired |-> 0, impacts |-> 0, discarded |-> 0, complete |-> FALSE,
   mouse |-> <<>>, hits |-> <<>>, adviceWave |-> 0,
   born |-> <<>>, walked |-> <<>>, seen |-> <<>>, shots |-> <<>>, drawn |-> <<>>]

NoCall == [fn |-> "none"]

NoTwin == [run |-> 0, sc |-> <<>>, script |-> <<>>, tape |-> <<>>, at |-> 0]

Init ==
  /\ gameState = [money |-> INITIAL_MONEY, lives |-> INITIAL_LIVES, wave |-> 0,
                  isPlaying |-> FALSE, isGameOver |-> FALSE]
  /\ selectedTower = NoTower
  /\ waveComposition = <<>>
  /\ isWaveGenerating = FALSE
  /\ pendingWave = 0
  /\ enemies = <<>>
  /\ towers = <<>>
  /\ projectiles = <<>>
  /\ particles = <<>>
  /\ frameCount = 0
  /\ spawnIndex = 0
  /\ spawnTimer = 0
  /\ enemiesToSpawn = <<>>
  /\ nextId = 1
  /\ lastEvent = NoEvent
  /\ credited = <<>>
  /\ leakedIds = <<>>
  /\ waveSignals = 0
  /\ waveFrames = 0
  /\ sinceShot = [i \in 1..Len(towers) |-> LongAgo]
  /\ waveSpawned = 0
  /\ aiAdvice = ""
  /\ pendingAdvice = {}
  /\ adviceFor = 0
  /\ env = KeyEnv
  /\ call = NoCall
  /\ inFrame = FALSE
  /\ twin = NoTwin

\* ------------------------------------------------------- update(): spawning
\* PATH_WAYPOINTS[i] of the source (i from 0), in 1/UNIT pixels
Waypoint(i) == [x |-> PATH_WAYPOINTS[i + 1].x * UNIT, y |-> PATH_WAYPOINTS[i + 1].y * UNIT]

HasWaypoint(i) == i + 1 <= Len(PATH_WAYPOINTS)

\* (a slip: the hp multiplier of the group is left out)
NewEnemy_BaseHp(group, id) ==
  [ id |-> id, type |-> group.type,
    x |-> Waypoint(0).x, y |-> Waypoint(0).y,
    hp |-> ENEMY_STATS[group.type].hp * HP_UNIT,
    maxHp |-> ENEMY_STATS[group.type].hp * HP_UNIT,
    speed |-> ENEMY_STATS[group.type].speed,
    pathIndex |-> 0, frozen |-> 0, distanceTraveled |-> 0 ]

\* const newEnemy: EnemyEntity = {...}
NewEnemy(group, id) ==
  [ id |-> id, type |-> group.type,
    x |-> Waypoint(0).x, y |-> Waypoint(0).y,
    hp |-> (ENEMY_STATS[group.type].hp * group.hpMultiplier * HP_UNIT) \div 100,
    maxHp |-> (ENEMY_STATS[group.type].hp * group.hpMultiplier * HP_UNIT) \div 100,
    speed |-> ENEMY_STATS[group.type].speed,
    pathIndex |-> 0, frozen |-> 0, distanceTraveled |-> 0 ]

\* (a slip: the group is dropped one enemy late)
ConsumeOne_Late(queue) ==
  IF Head(queue).count - 1 < 0
    THEN Tail(queue)
    ELSE <<[Head(queue) EXCEPT !.count = @ - 1]>> \o Tail(queue)

\* currentGroup.count--; if (currentGroup.count <= 0) shift()
ConsumeOne(queue) ==
  IF Head(queue).count - 1 <= 0
    THEN Tail(queue)
    ELSE <<[Head(queue) EXCEPT !.count = @ - 1]>> \o Tail(queue)

\* (a slip: the enemy list is not looked at)
WaveCompleteNow_QueueOnly == Len(enemiesToSpawn) = 0 /\ waveComposition # <<>>

\* (a slip: the wave is complete only when the last particle is gone)
WaveCompleteNow_AfterParticles ==
  Len(enemiesToSpawn) = 0 /\ Len(enemies) = 0 /\ Len(particles) = 0 /\ waveComposition # <<>>

\* onWaveComplete() is called: else if (enemies.length === 0 && waveComposition)
WaveCompleteNow == Len(enemiesToSpawn) = 0 /\ Len(enemies) = 0 /\ waveComposition # <<>>

\* 1. Spawning Logic: the timer, the queue and the enemy list after it
SpawnPhase ==
  IF Len(enemiesToSpawn) > 0
    THEN IF spawnTimer + 1 >= Head(enemiesToSpawn).interval
           THEN [ timer |-> 0, queue |-> ConsumeOne(enemiesToSpawn),
                  enemies |-> Append(enemies, NewEnemy(Head(enemiesToSpawn), nextId)),
                  spawned |-> 1, complete |-> FALSE,
                  born |-> <<NewEnemy(Head(enemiesToSpawn), nextId)>> ]
           ELSE [ timer |-> spawnTimer + 1, queue |-> enemiesToSpawn,
                  enemies |-> enemies, spawned |-> 0, complete |-> FALSE, born |-> <<>> ]
    ELSE [ timer |-> spawnTimer, queue |-> enemiesToSpawn, enemies |-> enemies,
           spawned |-> 0, complete |-> WaveCompleteNow, born |-> <<>> ]

\* ------------------------------------------------------- update(): movement
\* enemy.frozen after "if (enemy.frozen > 0) enemy.frozen--"
FrozenAfter(e) == IF e.frozen > 0 THEN e.frozen - 1 ELSE e.frozen

\* currentSpeed = enemy.frozen > 0 ? enemy.speed * 0.5 : enemy.speed
CurrentSpeed(e) == IF FrozenAfter(e) > 0 THEN e.speed \div 2 ELSE e.speed

\* the enemy has no targetNode: it reached the end of the path
AtBase(e) == ~HasWaypoint(e.pathIndex + 1)

\* one enemy in "2. Update Enemies"
MoveEnemy(e) ==
  IF AtBase(e)
    THEN [e EXCEPT !.frozen = FrozenAfter(e), !.hp = 0]
    ELSE
      LET node == Waypoint(e.pathIndex + 1)
          dx == node.x - e.x
          dy == node.y - e.y
          cs == CurrentSpeed(e)
          d2 == dx * dx + dy * dy
      IN IF d2 < cs * cs
           THEN [e EXCEPT !.frozen = FrozenAfter(e), !.x = node.x, !.y = node.y,
                          !.pathIndex = @ + 1, !.distanceTraveled = @ + cs]
           ELSE [e EXCEPT !.frozen = FrozenAfter(e),
                          !.x = @ + Quot(dx * cs, Sqrt(d2)),
                          !.y = @ + Quot(dy * cs, Sqrt(d2)),
                          !.distanceTraveled = @ + cs]

\* the ids of the enemies for which setGameState(lives - 1) is queued
Leaked(ens) == [i \in 1..Len(SelectSeq(ens, AtBase)) |-> SelectSeq(ens, AtBase)[i].id]

\* (a slip: hp >= 0)
Alive_OrZero(e) == e.hp >= 0

Alive(e) == e.hp > 0

\* (a slip: the list is not filtered before the towers read it)
MovePhase_NoFilter(ens) == [i \in 1..Len(ens) |-> MoveEnemy(ens[i])]

\* enemiesRef.current.forEach(enemy => {...}): the list before the filter
WalkPhase(ens) == [i \in 1..Len(ens) |-> MoveEnemy(ens[i])]

\* enemiesRef.current.filter(e => e.hp > 0), after the forEach
MovePhase(ens) == SelectSeq([i \in 1..Len(ens) |-> MoveEnemy(ens[i])], Alive)

\* --------------------------------------------------- update(): towers fire
\* (a slip: the timer is decremented twice in a step)
CooledTimer_Twice(t) == IF t.cooldownTimer > 0 THEN Max(0, t.cooldownTimer - 2) ELSE t.cooldownTimer

\* tower.cooldownTimer after "if (tower.cooldownTimer > 0) tower.cooldownTimer--"
CooledTimer(t) == IF t.cooldownTimer > 0 THEN t.cooldownTimer - 1 ELSE t.cooldownTimer

\* dist(tower.x, tower.y, enemy.x, enemy.y) <= tower.range
InRange(t, e) == Dist2(t.x, t.y, e.x, e.y) <= (t.range * UNIT) * (t.range * UNIT)

\* (a slip: the first enemy in range is taken)
RECURSIVE FindTarget_First(_, _, _, _, _)
FindTarget_First(t, ens, i, maxDist, target) ==
  IF i > Len(ens) THEN target
  ELSE IF InRange(t, ens[i]) /\ target = 0
         THEN FindTarget_First(t, ens, i + 1, ens[i].distanceTraveled, i)
         ELSE FindTarget_First(t, ens, i + 1, maxDist, target)

\* for (const enemy of enemiesRef.current): the index of the target, 0 for null
RECURSIVE FindTarget(_, _, _, _, _)
FindTarget(t, ens, i, maxDist, target) ==
  IF i > Len(ens) THEN target
  ELSE IF InRange(t, ens[i]) /\ ens[i].distanceTraveled > maxDist
         THEN FindTarget(t, ens, i + 1, ens[i].distanceTraveled, i)
         ELSE FindTarget(t, ens, i + 1, maxDist, target)

\* (a slip: the cooldown is not looked at)
TowerTarget_Eager(t, ens) == FindTarget(t, ens, 1, -1, 0)

\* if (tower.cooldownTimer <= 0) {...}: the index of the target, 0 if none
TowerTarget(t, ens) == IF CooledTimer(t) <= 0 THEN FindTarget(t, ens, 1, -1, 0) ELSE 0

\* (a slip: a tower that fires gains a level and its damage)
FireTower_Levels(t, ens) ==
  IF TowerTarget(t, ens) # 0
    THEN [t EXCEPT !.cooldownTimer = TOWER_STATS[t.type].cooldown,
                   !.level = @ + 1, !.damage = @ + TOWER_STATS[t.type].damage]
    ELSE [t EXCEPT !.cooldownTimer = CooledTimer(t)]

\* one tower in "3. Towers Fire"
FireTower(t, ens) ==
  IF TowerTarget(t, ens) # 0
    THEN [t EXCEPT !.cooldownTimer = TOWER_STATS[t.type].cooldown]
    ELSE [t EXCEPT !.cooldownTimer = CooledTimer(t)]

\* projectilesRef.current.push({...})
NewProjectile(t, target) ==
  [ x |-> t.x, y |-> t.y, targetId |-> target.id, damage |-> t.damage,
    speed |-> PROJECTILE_SPEED * UNIT, isAoE |-> (t.type = "CANNON"),
    slowEffect |-> IF t.type = "SLOW" THEN SLOW_FRAMES ELSE 0 ]

\* the projectiles the towers push, in the order of the towers
RECURSIVE Shots(_, _)
Shots(ts, ens) ==
  IF ts = <<>> THEN <<>>
  ELSE (IF TowerTarget(Head(ts), ens) # 0
          THEN <<NewProjectile(Head(ts), ens[TowerTarget(Head(ts), ens)])>>
          ELSE <<>>) \o Shots(Tail(ts), ens)

TowerPhase(ts, ens) == [i \in 1..Len(ts) |-> FireTower(ts[i], ens)]

\* history: the towers that push a projectile, with their cooldownTimer at the
\* start of the update and the projectile pushed
ShotRecords(ts, ens) ==
  LET firing == SelectSeq([i \in 1..Len(ts) |-> [tower |-> i, target |-> TowerTarget(ts[i], ens)]],
                          LAMBDA f : f.target # 0)
  IN [j \in 1..Len(firing) |->
        [tower |-> firing[j].tower, timer |-> ts[firing[j].tower].cooldownTimer,
         projectile |-> NewProjectile(ts[firing[j].tower], ens[firing[j].target])]]

\* ------------------------------------------------- update(): projectiles
\* enemiesRef.current.find(e => e.id === p.targetId): its index, 0 if absent
RECURSIVE FindById(_, _, _)
FindById(ens, id, i) ==
  IF i > Len(ens) THEN 0
  ELSE IF ens[i].id = id THEN i ELSE FindById(ens, id, i + 1)

\* (a slip: the hit points are kept at 0 or above)
Damaged_Clamped(e, dmg) == [e EXCEPT !.hp = Max(0, @ - dmg * HP_UNIT)]

\* enemy.hp -= dmg
Damaged(e, dmg) == [e EXCEPT !.hp = @ - dmg * HP_UNIT]

\* damageEnemy credits the bounty: if (enemy.hp <= 0)
Credits(e) == e.hp <= 0

\* the enemy is hit by the splash: dist(target.x, target.y, e.x, e.y) < 60
InSplash(target, e) ==
  Dist2(target.x, target.y, e.x, e.y) < (SPLASH_RADIUS * UNIT) * (SPLASH_RADIUS * UNIT)

\* (a slip: the splash branch damages the target only)
IsHit_TargetOnly(p, target, e) == e.id = target.id

\* the enemy is hit by the impact of p on target
IsHit(p, target, e) == IF p.isAoE THEN InSplash(target, e) ELSE e.id = target.id

\* (a slip: the slow duration is added to the timer)
ImpactEnemies_Accumulates(ens, p, ti) ==
  [ j \in 1..Len(ens) |->
      LET hit == IF IsHit(p, ens[ti], ens[j]) THEN Damaged(ens[j], p.damage) ELSE ens[j]
      IN IF ~p.isAoE /\ j = ti /\ p.slowEffect > 0
           THEN [hit EXCEPT !.frozen = @ + p.slowEffect]
           ELSE hit ]

\* the enemies after the impact of p on ens[ti]
ImpactEnemies(ens, p, ti) ==
  [ j \in 1..Len(ens) |->
      LET hit == IF IsHit(p, ens[ti], ens[j]) THEN Damaged(ens[j], p.damage) ELSE ens[j]
      IN IF ~p.isAoE /\ j = ti /\ p.slowEffect > 0
           THEN [hit EXCEPT !.frozen = p.slowEffect]
           ELSE hit ]

\* the enemies damageEnemy credits a bounty for at the impact, in their order
ImpactBounties(ens, p, ti) ==
  LET after == ImpactEnemies(ens, p, ti)
      paid == SelectSeq([j \in 1..Len(ens) |-> [id |-> ens[j].id, type |-> ens[j].type,
                                                x |-> ens[j].x, y |-> ens[j].y,
                                                on |-> IsHit(p, ens[ti], ens[j]) /\ Credits(after[j])]],
                        LAMBDA b: b.on)
  IN [j \in 1..Len(paid) |-> [id |-> paid[j].id, type |-> paid[j].type,
                              x |-> paid[j].x, y |-> paid[j].y]]

\* createParticles calls of the impact: where and how many
ImpactBursts(ens, p, ti) ==
  LET paid == ImpactBounties(ens, p, ti)
  IN [j \in 1..Len(paid) |-> [x |-> paid[j].x, y |-> paid[j].y, count |-> 10]]
     \o <<[x |-> ens[ti].x, y |-> ens[ti].y, count |-> IF p.isAoE THEN 8 ELSE 3]>>

\* p.x += (dx / distance) * p.speed
Advance(p, target) ==
  LET dx == target.x - p.x
      dy == target.y - p.y
      distance == Sqrt(dx * dx + dy * dy)
  IN [p EXCEPT !.x = @ + Quot(dx * p.speed, distance), !.y = @ + Quot(dy * p.speed, distance)]

\* distance < p.speed
Reaches(p, target) == Dist2(p.x, p.y, target.x, target.y) < p.speed * p.speed

\* the projectile is spliced out because its target is not in the enemy list
TargetGone(ens, p) == FindById(ens, p.targetId, 1) = 0

\* "4. Update Projectiles": for (i = length - 1; i >= 0; i--), from projectile i down
\* (a slip: the projectile is not spliced out)
Discard_Keeps(acc, p) == [acc EXCEPT !.discarded = @ + 1, !.kept = <<p>> \o @]

\* if (!target) { projectilesRef.current.splice(i, 1); continue; }
Discard(acc, p) == [acc EXCEPT !.discarded = @ + 1]

\* history: the impact of p on ens[ti] and the ids of the enemies damageEnemy was called for
ImpactRecord(ens, p, ti) ==
  [ targetId |-> p.targetId, isAoE |-> p.isAoE, damage |-> p.damage,
    slowEffect |-> p.slowEffect,
    struck |-> LET hit == SelectSeq(ens, LAMBDA e : IsHit(p, ens[ti], e))
               IN [j \in 1..Len(hit) |-> hit[j].id] ]

\* if (distance < p.speed) { ...; projectilesRef.current.splice(i, 1); }
Impact(acc, p, ti) ==
  [acc EXCEPT !.enemies = ImpactEnemies(acc.enemies, p, ti),
              !.bounties = @ \o ImpactBounties(acc.enemies, p, ti),
              !.bursts = @ \o ImpactBursts(acc.enemies, p, ti),
              !.impacts = @ + 1,
              !.hits = Append(@, ImpactRecord(acc.enemies, p, ti))]

\* else { p.x += ...; p.y += ...; }: the projectile stays in the list
Fly(acc, p, ti) == [acc EXCEPT !.kept = <<Advance(p, acc.enemies[ti])>> \o @]

RECURSIVE ProjectilePhase(_, _, _)
ProjectilePhase(ps, i, acc) ==
  IF i = 0 THEN acc
  ELSE
    LET p == ps[i]
        ti == FindById(acc.enemies, p.targetId, 1)
    IN IF TargetGone(acc.enemies, p)
         THEN ProjectilePhase(ps, i - 1, Discard(acc, p))
         ELSE IF Reaches(p, acc.enemies[ti])
           THEN ProjectilePhase(ps, i - 1, Impact(acc, p, ti))
           ELSE ProjectilePhase(ps, i - 1, Fly(acc, p, ti))

\* ---------------------------------------------------- update(): particles
\* Math.random(), in quarters; one draw for all the particles a handler creates;
\* the second of two runs of a wave draws another number than the first
RandomSamples == IF twin.run = 2 THEN {3} ELSE {0}

\* createParticles(x, y, color, count) with Math.random() = r / 4
createParticles(burst, r) ==
  [ i \in 1..burst.count |->
      [x |-> burst.x, y |-> burst.y, vx |-> (r - 2) * UNIT, vy |-> (r - 2) * UNIT,
       life |-> 20 + 5 * r] ]

RECURSIVE AllParticles(_, _)
AllParticles(bursts, r) ==
  IF bursts = <<>> THEN <<>>
  ELSE createParticles(Head(bursts), r) \o AllParticles(Tail(bursts), r)

\* p.x += p.vx; p.y += p.vy; p.life--
Decay(p) == [p EXCEPT !.x = @ + p.vx, !.y = @ + p.vy, !.life = @ - 1]

Glowing(p) == p.life > 0

\* "5. Update Particles"
ParticlePhase(ps) == SelectSeq([i \in 1..Len(ps) |-> Decay(ps[i])], Glowing)

\* ------------------------------------------------- the queued state updates
\* App.handleGameOver: setGameState(prev => ({...prev, isGameOver: true, isPlaying: false}))
handleGameOver(gs) == [gs EXCEPT !.isGameOver = TRUE, !.isPlaying = FALSE]

\* App.handleWaveComplete: setGameState(prev => ({...prev, isPlaying: false}))
handleWaveComplete(gs) == [gs EXCEPT !.isPlaying = FALSE]

\* (a slip: newLives < 0)
LoseLife_Late(gs) ==
  IF gs.lives - 1 < 0
    THEN [gs EXCEPT !.lives = @ - 1, !.isGameOver = TRUE, !.isPlaying = FALSE]
    ELSE [gs EXCEPT !.lives = @ - 1]

\* the updater of a leak: newLives = prev.lives - 1; if (newLives <= 0) onGameOver()
LoseLife(gs) ==
  IF gs.lives - 1 <= 0
    THEN handleGameOver([gs EXCEPT !.lives = @ - 1])
    ELSE [gs EXCEPT !.lives = @ - 1]

RECURSIVE LoseLives(_, _)
LoseLives(gs, n) == IF n = 0 THEN gs ELSE LoseLives(LoseLife(gs), n - 1)

\* the updater of damageEnemy: money: prev.money + ENEMY_STATS[enemy.type].bounty
AddBounty(gs, type) == [gs EXCEPT !.money = @ + ENEMY_STATS[type].bounty]

RECURSIVE PayBounties(_, _)
PayBounties(gs, bs) ==
  IF bs = <<>> THEN gs ELSE PayBounties(AddBounty(gs, Head(bs).type), Tail(bs))

\* ------------------------------------------------------------------ update
\* (a slip: isPlaying is not looked at)
UpdateRuns_GameOverOnly == ~gameState.isGameOver

\* handleWaveComplete: setAiAdvice(...)
WaveClear == "Wave clear. Repairs unavailable. Prepare for next assault."

\* if (gameState.isGameOver || !gameState.isPlaying) return
UpdateRuns == ~(gameState.isGameOver \/ ~gameState.isPlaying)

update ==
  IF ~UpdateRuns
    THEN /\ lastEvent' = [NoEvent EXCEPT !.kind = "update"]
         /\ UNCHANGED <<appVars, canvasVars, credited, leakedIds, waveSignals, waveFrames, sinceShot, waveSpawned,
                 aiAdvice, pendingAdvice, adviceFor, svcVars>>
    ELSE \E r \in RandomSamples :
      LET sp == SpawnPhase
          leaked == Leaked(sp.enemies)
          moved == MovePhase(sp.enemies)
          flying == projectiles \o Shots(towers, moved)
          pp == ProjectilePhase(flying, Len(flying),
                  [enemies |-> moved, kept |-> <<>>, bounties |-> <<>>,
                   bursts |-> <<>>, impacts |-> 0, discarded |-> 0, hits |-> <<>>])
          completed == IF sp.complete THEN handleWaveComplete(gameState) ELSE gameState
      IN /\ gameState' = PayBounties(LoseLives(completed, Len(leaked)), pp.bounties)
         /\ waveComposition' = IF sp.complete THEN <<>> ELSE waveComposition
         /\ spawnTimer' = sp.timer
         /\ enemiesToSpawn' = sp.queue
         /\ nextId' = nextId + sp.spawned
         /\ enemies' = pp.enemies
         /\ towers' = TowerPhase(towers, moved)
         /\ projectiles' = pp.kept
         /\ particles' = ParticlePhase(particles \o AllParticles(pp.bursts, r))
         /\ frameCount' = frameCount + 1
         /\ lastEvent' = [NoEvent EXCEPT
                          !.kind = "update", !.ran = TRUE,
                          !.spawned = sp.spawned, !.leaked = leaked,
                          !.bounties = [i \in 1..Len(pp.bounties) |->
                                         [id |-> pp.bounties[i].id, type |-> pp.bounties[i].type]],
                          !.fired = Len(flying) - Len(projectiles),
                          !.impacts = pp.impacts, !.discarded = pp.discarded,
                          !.complete = sp.complete, !.hits = pp.hits,
                          !.born = sp.born, !.walked = WalkPhase(sp.enemies),
                          !.seen = moved, !.shots = ShotRecords(towers, moved)]
         /\ credited' = credited \o [i \in 1..Len(pp.bounties) |-> pp.bounties[i].id]
         /\ leakedIds' = leakedIds \o leaked
         /\ waveSignals' = waveSignals + (IF sp.complete THEN 1 ELSE 0)
         /\ waveFrames' = waveFrames + 1
         /\ sinceShot' = [i \in 1..Len(towers) |->
                            IF \E j \in 1..Len(ShotRecords(towers, moved)) :
                                 ShotRecords(towers, moved)[j].tower = i
                              THEN 0 ELSE Min(sinceShot[i] + 1, LongAgo)]
         /\ waveSpawned' = waveSpawned + sp.spawned
         /\ aiAdvice' = IF sp.complete THEN WaveClear ELSE aiAdvice
         /\ adviceFor' = IF sp.complete THEN 0 ELSE adviceFor
         /\ UNCHANGED <<selectedTower, isWaveGenerating, pendingWave, spawnIndex,
                        pendingAdvice, svcVars>>

\* ------------------------------------------------------- handleCanvasClick
\* Math.floor(mouse / GRID_SIZE) * GRID_SIZE + GRID_SIZE / 2
Snap(mouse) == (mouse \div GRID_SIZE) * GRID_SIZE + GRID_SIZE \div 2

\* (a slip: the tower's y is compared with gridX)
IsOccupied_SameAxis(gridX, gridY) ==
  \E i \in 1..Len(towers) : towers[i].x = gridX * UNIT /\ towers[i].y = gridX * UNIT

\* towersRef.current.some(t => t.x === gridX && t.y === gridY)
IsOccupied(gridX, gridY) ==
  \E i \in 1..Len(towers) : towers[i].x = gridX * UNIT /\ towers[i].y = gridY * UNIT


\* the cell is inside the bounding box of a path segment, inflated by GRID_SIZE / 2
OnPath(gridX, gridY) ==
  \E i \in 1..(Len(PATH_WAYPOINTS) - 1) :
    LET p1 == PATH_WAYPOINTS[i]
        p2 == PATH_WAYPOINTS[i + 1]
    IN /\ gridX >= Min(p1.x, p2.x) - GRID_SIZE \div 2
       /\ gridX <= Max(p1.x, p2.x) + GRID_SIZE \div 2
       /\ gridY >= Min(p1.y, p2.y) - GRID_SIZE \div 2
       /\ gridY <= Max(p1.y, p2.y) + GRID_SIZE \div 2

\* (a slip: the comparison is turned round)
CannotAfford_Inverted(type) == gameState.money > TOWER_STATS[type].cost

\* Validation 1: if (gameState.money < stats.cost) return
CannotAfford(type) == gameState.money < TOWER_STATS[type].cost

\* the player acts: at any time while no wave is playing, early in a wave
PlayerActs == ~gameState.isPlaying \/ frameCount < ClickFrames

\* (a slip: isGameOver is not looked at)
ClickResult_NoGameOver(mouseX, mouseY) ==
  IF selectedTower = NoTower THEN "ignored"
  ELSE IF CannotAfford(selectedTower) THEN "funds"
  ELSE IF IsOccupied(Snap(mouseX), Snap(mouseY)) THEN "occupied"
  ELSE IF OnPath(Snap(mouseX), Snap(mouseY)) THEN "onPath"
  ELSE "placed"

\* the validations of handleCanvasClick, in their order
ClickResult(mouseX, mouseY) ==
  IF selectedTower = NoTower \/ gameState.isGameOver THEN "ignored"
  ELSE IF CannotAfford(selectedTower) THEN "funds"
  ELSE IF IsOccupied(Snap(mouseX), Snap(mouseY)) THEN "occupied"
  ELSE IF OnPath(Snap(mouseX), Snap(mouseY)) THEN "onPath"
  ELSE "placed"

\* (a slip: the tower is placed before the path is looked at)
Places_BeforePathCheck(mouseX, mouseY) ==
  ClickResult(mouseX, mouseY) \in {"placed", "onPath"}

\* no validation returned: the tower is placed
Places(mouseX, mouseY) == ClickResult(mouseX, mouseY) = "placed"

\* (a slip: the tower starts with its cooldown running)
NewTower_Cooling(type, gridX, gridY) ==
  [ type |-> type, x |-> gridX * UNIT, y |-> gridY * UNIT,
    cooldownTimer |-> TOWER_STATS[type].cooldown,
    level |-> 1, range |-> TOWER_STATS[type].range, damage |-> TOWER_STATS[type].damage,
    fireRate |-> TOWER_STATS[type].cooldown ]

\* const newTower: TowerEntity = {...}
NewTower(type, gridX, gridY) ==
  [ type |-> type, x |-> gridX * UNIT, y |-> gridY * UNIT, cooldownTimer |-> 0,
    level |-> 1, range |-> TOWER_STATS[type].range, damage |-> TOWER_STATS[type].damage,
    fireRate |-> TOWER_STATS[type].cooldown ]

\* setGameState(prev => ({...prev, money: prev.money - stats.cost}))
Pay(gs, type) == [gs EXCEPT !.money = @ - TOWER_STATS[type].cost]

\* the points of the canvas that are clicked: in the cells (2,1) and (2,3) on
\* the two sides of the path and in the cell (2,2) on it
ClickPoints ==
  { [x |-> 85, y |-> 47], [x |-> 119, y |-> 155],
    [x |-> 90, y |-> 110] }

handleCanvasClick(mouseX, mouseY) ==
  /\ lastEvent' = [NoEvent EXCEPT !.kind = "click", !.result = ClickResult(mouseX, mouseY),
                                  !.mouse = <<mouseX, mouseY>>]
  /\ IF Places(mouseX, mouseY)
       THEN \E r \in RandomSamples :
            /\ towers' = Append(towers, NewTower(selectedTower, Snap(mouseX), Snap(mouseY)))
            /\ gameState' = Pay(gameState, selectedTower)
            /\ particles' = particles \o
                 createParticles([x |-> Snap(mouseX) * UNIT, y |-> Snap(mouseY) * UNIT,
                                  count |-> 10], r)
            /\ sinceShot' = Append(sinceShot, LongAgo)
       ELSE UNCHANGED <<towers, gameState, particles, sinceShot>>
  /\ UNCHANGED <<selectedTower, waveComposition, isWaveGenerating, pendingWave, enemies,
                 projectiles, frameCount, spawnIndex, spawnTimer, enemiesToSpawn, nextId,
                 credited, leakedIds, waveSignals, waveFrames, waveSpawned,
                 aiAdvice, pendingAdvice, adviceFor, svcVars, inFrame>>

\* the player clicks the canvas
ClickCanvas ==
  /\ PlayerActs
  /\ \E c \in ClickPoints : handleCanvasClick(c.x, c.y)
  /\ UNCHANGED twin

\* ----------------------------------------------------------------- the UI
\* UIOverlay: the game-over overlay covers the panel and its buttons
OverlayShown == gameState.isGameOver

\* UIOverlay: a build button is disabled={!canAfford}; onClick={() => setSelectedTower(type)}
SelectTower ==
  /\ PlayerActs
  /\ ~OverlayShown
  /\ \E type \in TowerType :
       /\ gameState.money >= TOWER_STATS[type].cost
       /\ selectedTower' = type
  /\ lastEvent' = [NoEvent EXCEPT !.kind = "select"]
  /\ UNCHANGED <<gameState, waveComposition, isWaveGenerating, pendingWave, canvasVars,
                 credited, leakedIds, waveSignals, waveFrames, sinceShot, waveSpawned,
                 aiAdvice, pendingAdvice, adviceFor, svcVars, inFrame, twin>>

\* UIOverlay: disabled={gameState.isPlaying || isWaveGenerating || gameState.isGameOver}
StartDisabled == gameState.isPlaying \/ isWaveGenerating \/ gameState.isGameOver

\* (a slip: the guard of the first line is missing)
startNextWave_Unguarded ==
  /\ lastEvent' = [NoEvent EXCEPT !.kind = "start", !.result = "requested"]
  /\ isWaveGenerating' = TRUE
  /\ pendingWave' = gameState.wave + 1
  /\ UNCHANGED <<gameState, selectedTower, waveComposition, canvasVars, credited, leakedIds, waveSignals, waveFrames, sinceShot, waveSpawned,
                 aiAdvice, pendingAdvice, adviceFor, svcVars, inFrame, twin>>

\* App.startNextWave up to "await generateWave(nextWave, diffMod)"
startNextWave ==
  /\ lastEvent' = [NoEvent EXCEPT !.kind = "start",
                     !.result = IF gameState.isPlaying \/ isWaveGenerating
                                  THEN "ignored" ELSE "requested"]
  /\ IF gameState.isPlaying \/ isWaveGenerating
       THEN UNCHANGED <<isWaveGenerating, pendingWave>>
       ELSE /\ isWaveGenerating' = TRUE
            /\ pendingWave' = gameState.wave + 1
  /\ UNCHANGED <<gameState, selectedTower, waveComposition, canvasVars, credited, leakedIds, waveSignals, waveFrames, sinceShot, waveSpawned,
                 aiAdvice, pendingAdvice, adviceFor, svcVars, inFrame, twin>>

\* the player clicks the start button
ClickStart ==
  /\ ~OverlayShown
  /\ ~StartDisabled
  /\ gameState.wave < MaxWave
  /\ startNextWave

\* setGameState(prev => ({...prev, wave: nextWave, isPlaying: true}))
BeginWave(gs, nextWave) == [gs EXCEPT !.wave = nextWave, !.isPlaying = TRUE]

\* .then(advice => setAiAdvice(advice)): what the advice leaves of the game state
AfterAdvice_Starts(gs) == [gs EXCEPT !.isPlaying = TRUE]

AfterAdvice(gs) == gs

\* App.startNextWave after the await: generateWave has resolved with waveData; the
\* effect of GameCanvas on [waveComposition] loads the spawn queue.  Without a
\* client getTacticalAdvice resolves at once, and its .then runs before anything else.
WaveReady ==
  /\ pendingWave # 0
  /\ \E response \in WaveResponses :
       LET waveData == generateWave(env, pendingWave, diffMod(pendingWave), response).value IN
       /\ waveComposition' = <<waveData>>
       /\ enemiesToSpawn' = waveData.enemies
  /\ gameState' = BeginWave(gameState, pendingWave)
  /\ isWaveGenerating' = FALSE
  /\ pendingWave' = 0
  /\ spawnIndex' = 0
  /\ spawnTimer' = 0
  /\ waveSignals' = 0
  /\ waveFrames' = 0
  /\ waveSpawned' = 0
  /\ IF getClient(env) = <<>>
       THEN /\ aiAdvice' = getTacticalAdvice(env, pendingWave, Rejected).value
            /\ adviceFor' = pendingWave
            /\ pendingAdvice' = pendingAdvice
       ELSE /\ pendingAdvice' = pendingAdvice \cup {pendingWave}
            /\ UNCHANGED <<aiAdvice, adviceFor>>
  /\ lastEvent' = [NoEvent EXCEPT !.kind = "waveReady"]
  /\ UNCHANGED <<selectedTower, enemies, towers, projectiles, particles, frameCount,
                 nextId, credited, leakedIds, sinceShot, svcVars, inFrame, twin>>

\* a getTacticalAdvice promise resolves: .then(advice => setAiAdvice(advice))
AdviceResolves ==
  /\ pendingAdvice # {}
  /\ \E wave \in pendingAdvice, response \in AdviceResponses :
       /\ aiAdvice' = getTacticalAdvice(env, wave, response).value
       /\ pendingAdvice' = pendingAdvice \ {wave}
       /\ adviceFor' = wave
       /\ lastEvent' = [NoEvent EXCEPT !.kind = "advice", !.adviceWave = wave,
                                       !.result = getTacticalAdvice(env, wave, response).value]
  /\ gameState' = AfterAdvice(gameState)
  /\ UNCHANGED <<selectedTower, waveComposition, isWaveGenerating, pendingWave, canvasVars,
                 credited, leakedIds, waveSignals, waveFrames, sinceShot, waveSpawned, svcVars, inFrame, twin>>

\* the animation frame: update(), then draw(), which changes nothing
Frame ==
  /\ UpdateRuns => frameCount < MaxFrames
  /\ update
  /\ UNCHANGED <<inFrame, twin>>

Next == Frame \/ ClickCanvas \/ SelectTower \/ ClickStart \/ WaveReady

Spec == Init /\ [][Next]_vars

\* ------------------------------------------------------- one wave, playing
\* A response of the text-generation service with one group of scouts.
OneGroup(n, k) ==
  [briefing |-> "AI",
   enemies |-> << [type |-> "SCOUT", count |-> n, interval |-> k, hpMultiplier |-> 100] >>]

\* The first wave, just started with such a response, before any purchase.
SpawnScenarios ==
  { [ gameState |-> BeginWave([money |-> INITIAL_MONEY, lives |-> INITIAL_LIVES, wave |-> 0,
                               isPlaying |-> FALSE, isGameOver |-> FALSE], 1),
      towers |-> <<>>, selectedTower |-> NoTower,
      waveData |-> OneGroup(n, k), frameCount |-> 0, nextId |-> 1 ] :
    n \in 1..MaxCount, k \in 1..MaxInterval }

\* A response with a strong grunt, two scouts that catch up with it, and a
\* scout k frames behind them.
Convoy(k) ==
  [briefing |-> "AI",
   enemies |-> << [type |-> "GRUNT", count |-> 1, interval |-> 1, hpMultiplier |-> 200],
                  [type |-> "SCOUT", count |-> 2, interval |-> 12, hpMultiplier |-> 100],
                  [type |-> "SCOUT", count |-> 1, interval |-> k, hpMultiplier |-> 100] >>]

\* The fourth wave, just started with such a response, with a CANNON at the
\* cell (2,1) and two BLASTERs at the cells (13,5) and (13,6), which are out
\* of range of the first waypoints; BLASTER is selected and one more can be bought.
SplashScenarios ==
  { [ gameState |-> BeginWave([money |-> 70, lives |-> INITIAL_LIVES, wave |-> 3,
                               isPlaying |-> FALSE, isGameOver |-> FALSE], 4),
      towers |-> << NewTower("BLASTER", Snap(13 * GRID_SIZE), Snap(5 * GRID_SIZE)),
                    NewTower("BLASTER", Snap(13 * GRID_SIZE), Snap(6 * GRID_SIZE)),
                    NewTower("CANNON", Snap(2 * GRID_SIZE), Snap(GRID_SIZE)) >>,
      selectedTower |-> "BLASTER",
      waveData |-> Convoy(k), frameCount |-> 3 * MaxFrames, nextId |-> 3 * MaxCount + 1 ] :
    k \in {MaxInterval * 3} }

\* A response with two scouts, k frames apart.
Scouts(k) ==
  [briefing |-> "AI",
   enemies |-> << [type |-> "SCOUT", count |-> 2, interval |-> k, hpMultiplier |-> 100] >>]

\* The first wave, just started, after a SLOW tower was bought with the
\* initial money: with two scouts and the tower at the cell (0,1), next to the
\* first waypoint; with the response Swarm and the tower at the cell (2,3).
SlowScenarios ==
  { [ gameState |-> BeginWave(Pay([money |-> INITIAL_MONEY, lives |-> INITIAL_LIVES, wave |-> 0,
                                   isPlaying |-> FALSE, isGameOver |-> FALSE], "SLOW"), 1),
      towers |-> << NewTower("SLOW", Snap(0), Snap(GRID_SIZE)) >>,
      selectedTower |-> "SLOW",
      waveData |-> Scouts(k), frameCount |-> 0, nextId |-> 1 ] :
    k \in {MaxInterval * 3} }
  \cup
  { [ gameState |-> BeginWave(Pay([money |-> INITIAL_MONEY, lives |-> INITIAL_LIVES, wave |-> 0,
                                   isPlaying |-> FALSE, isGameOver |-> FALSE], "SLOW"), 1),
      towers |-> << NewTower("SLOW", Snap(2 * GRID_SIZE), Snap(3 * GRID_SIZE)) >>,
      selectedTower |-> "SLOW",
      waveData |-> Swarm, frameCount |-> 0, nextId |-> 1 ] }

Scenarios == SpawnScenarios \cup SplashScenarios \cup SlowScenarios

\* the state that startNextWave and the effect on [waveComposition] leave
WaveStart(sc) ==
  /\ gameState = sc.gameState
  /\ selectedTower = sc.selectedTower
  /\ waveComposition = <<sc.waveData>>
  /\ isWaveGenerating = FALSE
  /\ pendingWave = 0
  /\ enemies = <<>>
  /\ towers = sc.towers
  /\ projectiles = <<>>
  /\ particles = <<>>
  /\ frameCount = sc.frameCount
  /\ spawnIndex = 0
  /\ spawnTimer = 0
  /\ enemiesToSpawn = sc.waveData.enemies
  /\ nextId = sc.nextId
  /\ lastEvent = [NoEvent EXCEPT !.kind = "waveReady"]
  /\ credited = <<>>
  /\ leakedIds = <<>>
  /\ waveSignals = 0
  /\ waveFrames = 0
  /\ sinceShot = [i \in 1..Len(towers) |-> LongAgo]
  /\ waveSpawned = 0
  /\ aiAdvice = ""
  /\ pendingAdvice = {sc.gameState.wave}
  /\ adviceFor = 0
  /\ env = KeyEnv
  /\ call = NoCall
  /\ inFrame = FALSE
  /\ twin = [NoTwin EXCEPT !.run = 1, !.sc = sc]

WaveInit == \E sc \in Scenarios : WaveStart(sc)

\* the animation frame, for at most MaxFrames frames of the wave
WaveFrame ==
  /\ UpdateRuns => waveFrames < MaxFrames
  /\ update
  /\ UNCHANGED <<inFrame, twin>>

\* the player clicks the canvas in the first frames of the wave
WaveClick ==
  /\ waveFrames <= ClickFrames
  /\ \E c \in ClickPoints : handleCanvasClick(c.x, c.y)
  /\ UNCHANGED twin

WaveNext == WaveFrame \/ WaveClick

WaveSpec == WaveInit /\ [][WaveNext]_vars

\* ---------------------------------------------------------------- draw()
\* ENEMY_STATS[type].radius, in pixels
ENEMY_RADIUS == [SCOUT |-> 8, GRUNT |-> 12, TANK |-> 16, BOSS |-> 24]

\* maxLife of a particle, in frames
MAX_LIFE == 40

\* What draw() paints over the cleared background, the grid and the path:
\* a disc per tower, a square (TANK) or a disc per enemy with its health bar
\* of 20 * hp / maxHp pixels (in 1/UNIT pixels here), a dot per projectile,
\* a dot per particle with globalAlpha = life / maxLife (in hundredths)
Painted(ts, ens, ps, parts) ==
  [ towers |-> [i \in 1..Len(ts) |->
                 [x |-> ts[i].x, y |-> ts[i].y, type |-> ts[i].type]],
    enemies |-> [i \in 1..Len(ens) |->
                  [x |-> ens[i].x, y |-> ens[i].y,
                   shape |-> IF ens[i].type = "TANK" THEN "square" ELSE "disc",
                   radius |-> ENEMY_RADIUS[ens[i].type],
                   bar |-> (20 * UNIT * ens[i].hp) \div ens[i].maxHp]],
    projectiles |-> [i \in 1..Len(ps) |-> [x |-> ps[i].x, y |-> ps[i].y]],
    particles |-> [i \in 1..Len(parts) |->
                    [x |-> parts[i].x, y |-> parts[i].y,
                     alpha |-> (parts[i].life * 100) \div MAX_LIFE]] ]

\* (a slip: the health bar is kept from going negative in the enemy itself)
draw_ClampsHp ==
  /\ lastEvent' = [NoEvent EXCEPT !.kind = "draw",
                     !.drawn = <<Painted(towers, enemies, projectiles, particles)>>]
  /\ enemies' = [i \in 1..Len(enemies) |->
                   [enemies[i] EXCEPT !.hp = IF @ < 0 THEN 0 ELSE @]]
  /\ UNCHANGED <<appVars, towers, projectiles, particles, frameCount, spawnIndex,
                 enemiesToSpawn, spawnTimer, nextId, credited, leakedIds,
                 waveSignals, waveFrames, sinceShot, waveSpawned, adviceFor, svcVars>>

\* draw(ctx): every statement writes to ctx or reads one of the four stores
draw ==
  /\ lastEvent' = [NoEvent EXCEPT !.kind = "draw",
                     !.drawn = <<Painted(towers, enemies, projectiles, particles)>>]
  /\ UNCHANGED <<appVars, canvasVars, credited, leakedIds, waveSignals, waveFrames, sinceShot,
                 waveSpawned, adviceFor, svcVars>>

\* ------------------------------------------------ the two halves of a frame
\* loop(): update() ...
LoopUpdate ==
  /\ ~inFrame
  /\ UpdateRuns => waveFrames < MaxFrames
  /\ update
  /\ inFrame' = TRUE
  /\ UNCHANGED twin

\* ... then draw(ctx), on the canvas the component has mounted
LoopDraw ==
  /\ inFrame
  /\ draw
  /\ inFrame' = FALSE
  /\ UNCHANGED twin

\* a click is handled between two callbacks of requestAnimationFrame
LoopClick ==
  /\ ~inFrame
  /\ WaveClick

LoopNext == LoopUpdate \/ LoopDraw \/ LoopClick

LoopSpec == WaveInit /\ [][LoopNext]_vars

\* ------------------------------------------------- one wave, played twice
\* A wave is played (first run) and its commands and the states they led to
\* are kept; the wave is then played again from the same state but for the
\* particle list (second run), with the same commands.
\* the clicks of a run
TwinClicks == 1

\* everything but the particles and the history
Gameplay ==
  <<gameState, selectedTower, waveComposition, isWaveGenerating, pendingWave,
    enemies, towers, projectiles, frameCount, spawnIndex, spawnTimer,
    enemiesToSpawn, nextId>>

\* the particle list of the second run: two particles as createParticles
\* makes them with Math.random() at its greatest
TwinParticles == createParticles([x |-> 0, y |-> 0, count |-> 2], 4)

\* first run: an animation frame
FirstFrame ==
  /\ twin.run = 1
  /\ UpdateRuns /\ waveFrames < MaxFrames
  /\ update
  /\ twin' = [twin EXCEPT !.script = Append(@, [cmd |-> "frame", x |-> 0, y |-> 0]),
                          !.tape = Append(@, Gameplay')]
  /\ UNCHANGED inFrame

\* first run: a click on the canvas in the first frames of the wave, one that
\* builds a tower (the other clicks leave everything but lastEvent as it was)
FirstClick ==
  /\ twin.run = 1
  /\ waveFrames <= ClickFrames
  /\ Len(SelectSeq(twin.script, LAMBDA c : c.cmd = "click")) < TwinClicks
  /\ \E c \in ClickPoints :
       /\ Places(c.x, c.y)
       /\ handleCanvasClick(c.x, c.y)
       /\ twin' = [twin EXCEPT !.script = Append(@, [cmd |-> "click", x |-> c.x, y |-> c.y]),
                               !.tape = Append(@, Gameplay')]

\* the first run is over: the state the wave started in, with other particles
Rewind ==
  /\ twin.run = 1
  /\ ~UpdateRuns \/ waveFrames >= MaxFrames
  /\ twin.script # <<>>
  /\ gameState' = twin.sc.gameState
  /\ selectedTower' = twin.sc.selectedTower
  /\ waveComposition' = <<twin.sc.waveData>>
  /\ isWaveGenerating' = FALSE
  /\ pendingWave' = 0
  /\ enemies' = <<>>
  /\ towers' = twin.sc.towers
  /\ projectiles' = <<>>
  /\ particles' = TwinParticles
  /\ frameCount' = twin.sc.frameCount
  /\ spawnIndex' = 0
  /\ spawnTimer' = 0
  /\ enemiesToSpawn' = twin.sc.waveData.enemies
  /\ nextId' = twin.sc.nextId
  /\ lastEvent' = [NoEvent EXCEPT !.kind = "waveReady"]
  /\ credited' = <<>>
  /\ leakedIds' = <<>>
  /\ waveSignals' = 0
  /\ waveFrames' = 0
  /\ waveSpawned' = 0
  /\ sinceShot' = [i \in 1..Len(twin.sc.towers) |-> LongAgo]
  /\ aiAdvice' = ""
  /\ pendingAdvice' = {twin.sc.gameState.wave}
  /\ adviceFor' = 0
  /\ twin' = [twin EXCEPT !.run = 2]
  /\ UNCHANGED <<svcVars, inFrame>>

\* second run: the animation frame the first run had at this place
SecondFrame ==
  /\ twin.run = 2
  /\ twin.at < Len(twin.script)
  /\ twin.script[twin.at + 1].cmd = "frame"
  /\ update
  /\ twin' = [twin EXCEPT !.at = @ + 1]
  /\ UNCHANGED inFrame

\* second run: the click the first run had at this place
SecondClick ==
  /\ twin.run = 2
  /\ twin.at < Len(twin.script)
  /\ twin.script[twin.at + 1].cmd = "click"
  /\ handleCanvasClick(twin.script[twin.at + 1].x, twin.script[twin.at + 1].y)
  /\ twin' = [twin EXCEPT !.at = @ + 1]

TwinNext == FirstFrame \/ FirstClick \/ Rewind \/ SecondFrame \/ SecondClick

\* the waves that start with towers on the map
TwinInit == WaveInit /\ towers # <<>>

TwinSpec == TwinInit /\ [][TwinNext]_vars

\* ------------------------------------------------ a wave, to whatever end
\* the frames of a wave
LiveFrames == 10 * MaxFrames

\* A response whose only group is of a type ENEMY_STATS does not have:
\* generateWave returns what JSON.parse gives, whatever it is
Dragons ==
  [briefing |-> "AI",
   enemies |-> << [type |-> "DRAGON", count |-> 1, interval |-> 1, hpMultiplier |-> 100] >>]

\* The first wave, just started with such a response, without towers.
BrokenScenarios ==
  { [ gameState |-> BeginWave([money |-> INITIAL_MONEY, lives |-> INITIAL_LIVES, wave |-> 0,
                               isPlaying |-> FALSE, isGameOver |-> FALSE], 1),
      towers |-> <<>>, selectedTower |-> NoTower,
      waveData |-> Dragons, frameCount |-> 0, nextId |-> 1 ] }

\* A response with a group of no scout before a grunt.
Hollow ==
  [briefing |-> "AI",
   enemies |-> << [type |-> "SCOUT", count |-> 0, interval |-> 2, hpMultiplier |-> 100],
                  [type |-> "GRUNT", count |-> 1, interval |-> 3, hpMultiplier |-> 100] >>]

\* The first wave, just started with such a response, without towers.
HollowScenarios ==
  { [ gameState |-> BeginWave([money |-> INITIAL_MONEY, lives |-> INITIAL_LIVES, wave |-> 0,
                               isPlaying |-> FALSE, isGameOver |-> FALSE], 1),
      towers |-> <<>>, selectedTower |-> NoTower,
      waveData |-> Hollow, frameCount |-> 0, nextId |-> 1 ] }

LiveInit ==
  \E sc \in Scenarios \cup BrokenScenarios \cup HollowScenarios : WaveStart(sc)

\* stats = ENEMY_STATS[currentGroup.type] is undefined when an enemy is to be
\* spawned: stats.hp throws a TypeError
Throws ==
  /\ Len(enemiesToSpawn) > 0
  /\ spawnTimer + 1 >= Head(enemiesToSpawn).interval
  /\ Head(enemiesToSpawn).type \notin EnemyType

\* loop(): update() returns, draw(ctx), requestAnimationFrame(loop)
LiveFrame ==
  /\ ~inFrame
  /\ ~(UpdateRuns /\ Throws)
  /\ UpdateRuns => waveFrames < LiveFrames
  /\ update
  /\ UNCHANGED <<inFrame, twin>>

\* loop(): update() throws after spawnTimerRef.current = 0; the exception
\* leaves loop before draw(ctx) and before requestAnimationFrame(loop)
LiveThrow ==
  /\ ~inFrame
  /\ UpdateRuns /\ Throws
  /\ spawnTimer' = 0
  /\ inFrame' = TRUE
  /\ lastEvent' = [NoEvent EXCEPT !.kind = "throw"]
  /\ UNCHANGED <<appVars, enemies, towers, projectiles, particles, frameCount, spawnIndex,
                 enemiesToSpawn, nextId, credited, leakedIds, waveSignals, waveFrames, sinceShot,
                 waveSpawned, adviceFor, svcVars, twin>>

LiveNext == LiveFrame \/ LiveThrow \/ WaveClick

\* ENABLED <<LiveFrame>>_vars, written out: the loop is alive and update runs,
\* or returns at once where the last event was not that already
FrameEnabled ==
  /\ ~inFrame
  /\ \/ UpdateRuns /\ ~Throws /\ waveFrames < LiveFrames
     \/ ~UpdateRuns /\ lastEvent # [NoEvent EXCEPT !.kind = "update"]

\* <<LiveFrame>>_vars, by what it leaves in lastEvent
FrameStepped == lastEvent'.kind = "update"

\* WF_vars(LiveFrame), written out
FrameFair == []<>(~FrameEnabled) \/ []<><<FrameStepped>>_vars

\* the animation frames keep coming as long as the loop requests them: the
\* frame that returns, and the frame that throws
LiveSpec == LiveInit /\ [][LiveNext]_vars /\ FrameFair /\ WF_vars(LiveThrow)

\* --------------------------------------------- the waves and their advice
\* The game without towers, in an environment with or without a key, with
\* the advice promises resolving at any time.
Configured == {[process |-> FALSE, env |-> FALSE, API_KEY |-> <<>>], KeyEnv}

AdviceInit ==
  /\ gameState = [money |-> INITIAL_MONEY, lives |-> INITIAL_LIVES, wave |-> 0,
                  isPlaying |-> FALSE, isGameOver |-> FALSE]
  /\ selectedTower = NoTower
  /\ waveComposition = <<>>
  /\ isWaveGenerating = FALSE
  /\ pendingWave = 0
  /\ enemies = <<>>
  /\ towers = <<>>
  /\ projectiles = <<>>
  /\ particles = <<>>
  /\ frameCount = 0
  /\ spawnIndex = 0
  /\ spawnTimer = 0
  /\ enemiesToSpawn = <<>>
  /\ nextId = 1
  /\ lastEvent = NoEvent
  /\ credited = <<>>
  /\ leakedIds = <<>>
  /\ waveSignals = 0
  /\ waveFrames = 0
  /\ sinceShot = [i \in 1..Len(towers) |-> LongAgo]
  /\ waveSpawned = 0
  /\ aiAdvice = ""
  /\ pendingAdvice = {}
  /\ adviceFor = 0
  /\ env \in Configured
  /\ call = NoCall
  /\ inFrame = FALSE
  /\ twin = NoTwin

AdviceNext == Frame \/ ClickStart \/ WaveReady \/ AdviceResolves

AdviceSpec == AdviceInit /\ [][AdviceNext]_vars

\* ------------------------------------------ startNextWave, called at will
\* startNextWave is called, whatever the button shows
CallStart ==
  /\ gameState.wave < MaxWave \/ gameState.isPlaying \/ isWaveGenerating
  /\ startNextWave

\* getClient as the earlier version of the service kept in the file has it:
\* it throws when process.env.API_KEY cannot be read or is empty
getClientThrows(e) ==
  IF e.process /\ e.env /\ e.API_KEY # <<>> THEN e.API_KEY[1] = <<>> ELSE TRUE

\* (a slip: the flag is reset in the try block only)
WaveRejects_KeepsFlag ==
  /\ pendingWave # 0
  /\ getClientThrows(env)
  /\ pendingWave' = 0
  /\ lastEvent' = [NoEvent EXCEPT !.kind = "waveFailed"]
  /\ UNCHANGED <<gameState, selectedTower, waveComposition, isWaveGenerating, canvasVars,
                 credited, leakedIds, waveSignals, waveFrames, sinceShot, waveSpawned,
                 aiAdvice, pendingAdvice, adviceFor, svcVars, inFrame, twin>>

\* App.startNextWave after the await, when generateWave has rejected:
\* catch (error) { console.error(...) } finally { setIsWaveGenerating(false) }
WaveRejects ==
  /\ pendingWave # 0
  /\ getClientThrows(env)
  /\ isWaveGenerating' = FALSE
  /\ pendingWave' = 0
  /\ lastEvent' = [NoEvent EXCEPT !.kind = "waveFailed"]
  /\ UNCHANGED <<gameState, selectedTower, waveComposition, canvasVars,
                 credited, leakedIds, waveSignals, waveFrames, sinceShot, waveSpawned,
                 aiAdvice, pendingAdvice, adviceFor, svcVars, inFrame, twin>>

\* the game without towers, in an environment with or without a key, with
\* startNextWave called at any time and the request resolving or rejecting
StartNext == Frame \/ CallStart \/ WaveReady \/ WaveRejects

StartSpec == AdviceInit /\ [][StartNext]_vars

\* the request settles
Settles == WaveReady \/ WaveRejects

\* the same, every request settling in the end
SettleSpec == StartSpec /\ WF_vars(Settles)

\* ------------------------------------------------- the service functions
\* The exported functions of the service called in any process environment,
\* with any outcome of the request: call records the function, its argument,
\* the response of generateContent (used only when a request is made),
\* whether a request was made, and the value returned or resolved to.
SvcInit ==
  /\ gameState = [money |-> INITIAL_MONEY, lives |-> INITIAL_LIVES, wave |-> 0,
                  isPlaying |-> FALSE, isGameOver |-> FALSE]
  /\ selectedTower = NoTower
  /\ waveComposition = <<>>
  /\ isWaveGenerating = FALSE
  /\ pendingWave = 0
  /\ enemies = <<>>
  /\ towers = <<>>
  /\ projectiles = <<>>
  /\ particles = <<>>
  /\ frameCount = 0
  /\ spawnIndex = 0
  /\ spawnTimer = 0
  /\ enemiesToSpawn = <<>>
  /\ nextId = 1
  /\ lastEvent = NoEvent
  /\ credited = <<>>
  /\ leakedIds = <<>>
  /\ waveSignals = 0
  /\ waveFrames = 0
  /\ sinceShot = [i \in 1..Len(towers) |-> LongAgo]
  /\ waveSpawned = 0
  /\ aiAdvice = ""
  /\ pendingAdvice = {}
  /\ adviceFor = 0
  /\ env \in Envs
  /\ call = NoCall
  /\ inFrame = FALSE
  /\ twin = NoTwin

CallIsAIOnline ==
  /\ call' = [fn |-> "isAIOnline", wave |-> 0, response |-> Rejected,
              requested |-> FALSE, result |-> isAIOnline(env)]
  /\ UNCHANGED <<appVars, canvasVars, histVars, env, inFrame, twin>>

\* the difficulty multipliers generateWave is called with: the one of
\* startNextWave and the one generateFallbackWave computes
DifficultyMods(waveNumber) == {diffMod(waveNumber), DifficultyMult(waveNumber)}

CallGenerateWave ==
  \E waveNumber \in 1..MaxWaveNumber, response \in AllWaveResponses :
    \E difficultyMod \in DifficultyMods(waveNumber) :
      /\ call' = [fn |-> "generateWave", wave |-> waveNumber, response |-> response,
                  difficultyMod |-> difficultyMod,
                  requested |-> generateWave(env, waveNumber, difficultyMod, response).requested,
                  result |-> generateWave(env, waveNumber, difficultyMod, response).value]
      /\ UNCHANGED <<appVars, canvasVars, histVars, env, inFrame, twin>>

CallGetTacticalAdvice ==
  \E wave \in 1..MaxWaveNumber, response \in AdviceResponses :
    /\ call' = [fn |-> "getTacticalAdvice", wave |-> wave, response |-> response,
                requested |-> getTacticalAdvice(env, wave, response).requested,
                result |-> getTacticalAdvice(env, wave, response).value]
    /\ UNCHANGED <<appVars, canvasVars, histVars, env, inFrame, twin>>

SvcNext == CallIsAIOnline \/ CallGenerateWave \/ CallGetTacticalAdvice

ServiceSpec == SvcInit /\ [][SvcNext]_vars

\* ================================================================== claims
money == gameState.money
lives == gameState.lives

RECURSIVE BountySum(_)
BountySum(bs) ==
  IF bs = <<>> THEN 0 ELSE ENEMY_STATS[Head(bs).type].bounty + BountySum(Tail(bs))

\* the step is a call of update() / of handleCanvasClick
IsUpdate == lastEvent'.kind = "update"
IsClick == lastEvent'.kind = "click"

\* a wave was started and is over
WaveOver == gameState.wave >= 1 /\ ~gameState.isPlaying

\* C1, as stated: every wave that was started and is over was signalled
\* complete exactly once.
C1_EveryWaveSignalledOnce == WaveOver => waveSignals = 1

\* C1, amended: wave-complete is signalled at most once per wave, by an update
\* that finds the spawn queue and the enemy list both empty; a wave that is
\* over without game-over was signalled exactly once, a playing wave never yet.
C1_WaveCompleteOnce ==
  /\ [](waveSignals <= 1)
  /\ []((WaveOver /\ ~gameState.isGameOver) => waveSignals = 1)
  /\ [](gameState.isPlaying => waveSignals = 0)
  /\ [][waveSignals' # waveSignals
          => \/ waveSignals' = 0 /\ lastEvent'.kind = "waveReady"
             \/ /\ waveSignals' = waveSignals + 1
                /\ IsUpdate /\ lastEvent'.complete
                /\ Len(enemiesToSpawn) = 0 /\ Len(enemies) = 0
                /\ ~gameState'.isPlaying /\ waveComposition' = <<>>]_vars

\* a second wave was signalled complete, once, after the first one was
C1_Witness == gameState.wave = 2 /\ lastEvent.complete /\ waveSignals = 1

\* C2: lives is never negative, and lives at zero means game-over.
C2_LivesNeverNegative ==
  /\ lives >= 0
  /\ (lives <= 0 => gameState.isGameOver /\ ~gameState.isPlaying)

\* C3: money is never negative; it decreases only by a placement, by the cost
\* of the tower placed; it increases only in update(), by the bounties credited.
C3_Money ==
  /\ [](money >= 0)
  /\ [][/\ gameState'.money < money
           => /\ IsClick /\ lastEvent'.result = "placed"
              /\ selectedTower \in TowerType
              /\ Len(towers') = Len(towers) + 1
              /\ money - gameState'.money = TOWER_STATS[selectedTower].cost
        /\ gameState'.money > money
           => /\ IsUpdate /\ Len(lastEvent'.bounties) >= 1
              /\ gameState'.money - money = BountySum(lastEvent'.bounties)]_vars

\* a tower was bought and a bounty has just been credited
C3_Witness ==
  /\ Len(towers) > 0 /\ lastEvent.kind = "update" /\ Len(lastEvent.bounties) > 0
  /\ money < INITIAL_MONEY

\* C4: after every step no enemy with hit points <= 0 is in the enemy list.
C4_NoDeadEnemyListed == \A i \in 1..Len(enemies) : enemies[i].hp > 0

\* C5: a bounty is credited at most once for an enemy.
C5_BountyOnce ==
  \A i, j \in 1..Len(credited) : i # j => credited[i] # credited[j]

\* C6: every projectile in the list targets an enemy in the enemy list; the
\* projectiles that impacted or were discarded in an update are gone from the
\* list; an update in which projectiles were only discarded or moved changes
\* no money and no hit points.
C6_ProjectilesResolved ==
  /\ [](\A i \in 1..Len(projectiles) : ~TargetGone(enemies, projectiles[i]))
  /\ [][(IsUpdate /\ lastEvent'.ran)
          => /\ Len(projectiles') = Len(projectiles) + lastEvent'.fired
                                    - lastEvent'.impacts - lastEvent'.discarded
             /\ lastEvent'.impacts = 0
                => /\ gameState'.money = money
                   /\ \A i \in 1..Len(enemies') : \A j \in 1..Len(enemies) :
                        enemies'[i].id = enemies[j].id => enemies'[i].hp = enemies[j].hp]_vars

\* a projectile was discarded for a missing target while others fly on
C6_Witness ==
  /\ lastEvent.kind = "update" /\ lastEvent.discarded > 0 /\ lastEvent.impacts = 0
  /\ Len(projectiles) > 0 /\ Len(enemies) > 0

C8_LastLife ==
  /\ [][(IsUpdate /\ lives = 1 /\ Len(lastEvent'.leaked) >= 1)
          => gameState'.isGameOver /\ ~gameState'.isPlaying]_vars
  /\ [][gameState.isGameOver
          => UNCHANGED <<enemies, enemiesToSpawn, spawnTimer, nextId>>]_vars

\* update() was called after the last life was lost to one enemy, with
\* enemies on the path and groups in the spawn queue
C8_Witness ==
  /\ gameState.isGameOver /\ lives = 0
  /\ lastEvent.kind = "update" /\ ~lastEvent.ran
  /\ Len(enemies) > 0 /\ Len(enemiesToSpawn) > 0

\* C9: an update while the game is not playing or is over changes nothing.
C9_IdleUpdateChangesNothing ==
  [][(IsUpdate /\ (~gameState.isPlaying \/ gameState.isGameOver))
       => UNCHANGED <<appVars, canvasVars>>]_vars

\* update() was called between two waves, with towers and particles there
C9_Witness ==
  /\ lastEvent.kind = "update" /\ ~lastEvent.ran
  /\ ~gameState.isPlaying /\ ~gameState.isGameOver /\ gameState.wave >= 1
  /\ Len(towers) > 0 /\ Len(particles) > 0

\* C10: a click that is rejected changes nothing.
C10_RejectedClickChangesNothing ==
  [][(IsClick /\ lastEvent'.result # "placed") => UNCHANGED <<appVars, canvasVars>>]_vars

\* a click on a path cell was rejected, with a tower built and money left
C10_Witness ==
  /\ lastEvent.kind = "click" /\ lastEvent.result = "onPath"
  /\ Len(towers) > 0 /\ selectedTower \in TowerType

\* the centre of the grid cell that holds the pixel coordinate m, in 1/UNIT pixels
CellCentre(m) ==
  CHOOSE c \in {(k * GRID_SIZE + GRID_SIZE \div 2) * UNIT : k \in 0..(CANVAS_WIDTH \div GRID_SIZE)} :
    c - (GRID_SIZE \div 2) * UNIT <= m * UNIT /\ m * UNIT < c + (GRID_SIZE \div 2) * UNIT

\* C11: a placement that succeeds takes exactly the cost of the selected type
\* from money, which covered it, and appends exactly one tower of that type,
\* at the centre of the clicked cell, with cooldown 0; a click with a type
\* selected whose cost exceeds money places nothing and takes nothing.
C11_Placement ==
  [][IsClick =>
       /\ lastEvent'.result = "placed"
          => /\ selectedTower \in TowerType
             /\ TOWER_STATS[selectedTower].cost <= money
             /\ gameState' = [gameState EXCEPT !.money = money - TOWER_STATS[selectedTower].cost]
             /\ Len(towers') = Len(towers) + 1
             /\ SubSeq(towers', 1, Len(towers)) = towers
             /\ LET t == towers'[Len(towers')] IN
                  /\ t.type = selectedTower
                  /\ t.cooldownTimer = 0
                  /\ t.x = CellCentre(lastEvent'.mouse[1])
                  /\ t.y = CellCentre(lastEvent'.mouse[2])
       /\ (selectedTower \in TowerType /\ TOWER_STATS[selectedTower].cost > money)
          => /\ lastEvent'.result # "placed"
             /\ towers' = towers /\ gameState' = gameState]_vars

\* a tower was bought with money equal to its cost, money is 0, and a second
\* placement of the same type was rejected for its cost
C11_Witness ==
  /\ lastEvent.kind = "click" /\ lastEvent.result = "funds"
  /\ money = 0 /\ Len(towers) = 1 /\ towers[1].type = selectedTower
  /\ towers[1].cooldownTimer = 0

\* C12: no two towers stand on the same grid-snapped coordinates, and no
\* tower stands in a cell covered by a path segment.
C12_TowersApartOffPath ==
  /\ \A i, j \in 1..Len(towers) :
       i # j => towers[i].x # towers[j].x \/ towers[i].y # towers[j].y
  /\ \A i \in 1..Len(towers) : ~OnPath(towers[i].x \div UNIT, towers[i].y \div UNIT)

\* a click on the cell of a tower was rejected, with money left for the tower
C12_Witness ==
  /\ lastEvent.kind = "click" /\ lastEvent.result = "occupied"
  /\ Len(towers) = 1 /\ selectedTower \in TowerType

\* the wave that is playing or over has the single group of n enemies, k frames apart
SingleGroup(n, k) ==
  /\ waveComposition # <<>>
  /\ waveComposition[1].enemies = << [type |-> "SCOUT", count |-> n, interval |-> k,
                                      hpMultiplier |-> 100] >>

\* C13: with a spawn queue of one group of n >= 1 enemies, k >= 1 frames
\* apart, exactly min(n, floor(s / k)) enemies have been created after s
\* updates of the wave; an enemy is created only by an update, one at a time,
\* from a queue that is not empty.
C13_SpawnCount ==
  /\ [](\A n \in 1..MaxCount, k \in 1..MaxInterval :
          SingleGroup(n, k) => waveSpawned = Min(n, waveFrames \div k))
  /\ [][/\ waveSpawned' # waveSpawned
           => /\ IsUpdate /\ Len(enemiesToSpawn) > 0
              /\ waveSpawned' = waveSpawned + 1 /\ nextId' = nextId + 1
        /\ Len(enemies') > Len(enemies) => waveSpawned' = waveSpawned + 1]_vars

\* count 3 and interval 10: three enemies have been created after 31 updates
C13_Witness ==
  /\ SingleGroup(3, 10) /\ waveFrames = 31 /\ waveSpawned = 3
  /\ Len(enemies) = 3 /\ Len(enemiesToSpawn) = 0

\* the ids of the enemies in a list
Ids(ens) == {ens[i].id : i \in 1..Len(ens)}

\* the enemy with the id in a list that holds it
ById(ens, id) == ens[CHOOSE i \in 1..Len(ens) : ens[i].id = id]

\* the hit points of the enemy e of the list after a step, before the step
HpBefore(e) == IF e.id \in Ids(enemies) THEN ById(enemies, e.id).hp ELSE e.maxHp

\* the update had one impact, of an area-of-effect projectile
SplashStep == IsUpdate /\ Len(lastEvent'.hits) = 1 /\ lastEvent'.hits[1].isAoE

\* C14: in an update whose one impact is that of an area-of-effect projectile,
\* the enemies within 60 pixels of the target (the target among them) lose the
\* projectile's damage, the others keep their hit points; a bounty is credited
\* for exactly the enemies that end at hit points <= 0; the enemies that stay
\* above 0 and did not reach the base stay in the list; and every update
\* removes the enemies it finds at hit points <= 0.
C14_Splash ==
  /\ [][SplashStep =>
          LET h == lastEvent'.hits[1]
              target == ById(enemies', h.targetId)
              near(e) == (e.x - target.x) * (e.x - target.x)
                         + (e.y - target.y) * (e.y - target.y) < 60 * UNIT * 60 * UNIT
          IN /\ \A i \in 1..Len(enemies') :
                  LET e == enemies'[i] IN
                    IF near(e) THEN e.hp = HpBefore(e) - h.damage * HP_UNIT
                               ELSE e.hp = HpBefore(e)
             /\ target.hp = HpBefore(target) - h.damage * HP_UNIT
             /\ {lastEvent'.bounties[j].id : j \in 1..Len(lastEvent'.bounties)}
                  = {enemies'[i].id : i \in {k \in 1..Len(enemies') : enemies'[k].hp <= 0}}
             /\ Len(lastEvent'.bounties)
                  = Cardinality({i \in 1..Len(enemies') : enemies'[i].hp <= 0})
             /\ gameState'.money = money + BountySum(lastEvent'.bounties)
             /\ \A i \in 1..Len(enemies) :
                  (enemies[i].hp > 0 /\ ~(\E j \in 1..Len(lastEvent'.leaked) :
                                            lastEvent'.leaked[j] = enemies[i].id))
                    => enemies[i].id \in Ids(enemies')]_vars
  /\ [][(IsUpdate /\ lastEvent'.ran)
          => \A i \in 1..Len(enemies) : enemies[i].hp <= 0 => enemies[i].id \notin Ids(enemies')]_vars

\* a splash has just struck three enemies or more: one at least was destroyed
\* and credited, one was struck and lives on, one was out of the radius
C14_Witness ==
  /\ lastEvent.kind = "update" /\ Len(lastEvent.hits) = 1 /\ lastEvent.hits[1].isAoE
  /\ Len(lastEvent.hits[1].struck) >= 3
  /\ Len(lastEvent.bounties) >= 1
  /\ \E i \in 1..Len(enemies) :
       /\ enemies[i].hp > 0
       /\ \E j \in 1..Len(lastEvent.hits[1].struck) : lastEvent.hits[1].struck[j] = enemies[i].id
  /\ \E i \in 1..Len(enemies) :
       \A j \in 1..Len(lastEvent.hits[1].struck) : lastEvent.hits[1].struck[j] # enemies[i].id

\* the advice requested for the wave is stale: that wave was signalled
\* complete, or a later wave has started
Stale(wave) ==
  \/ wave < gameState.wave
  \/ wave = gameState.wave /\ ~gameState.isPlaying /\ ~gameState.isGameOver

\* C15: the advisory text never shows the advice requested for a wave that
\* has completed or that a later wave has followed.
C15_NoStaleAdvice == adviceFor # 0 => ~Stale(adviceFor)

\* C16: the step that follows the wave composition advances the wave number
\* and sets isPlaying, whatever advice requests are in flight, and it is
\* enabled whenever a composition is awaited; the step in which an advice
\* result arrives changes the advice text only.
C16_WaveStartIgnoresAdvice ==
  /\ [](pendingWave # 0 => ENABLED WaveReady)
  /\ [][lastEvent'.kind = "waveReady"
          => /\ gameState' = [gameState EXCEPT !.wave = pendingWave, !.isPlaying = TRUE]
             /\ gameState'.wave = gameState.wave + 1
             /\ waveComposition' # <<>> /\ ~isWaveGenerating']_vars
  /\ [][lastEvent'.kind = "advice"
          => UNCHANGED <<gameState, selectedTower, waveComposition, isWaveGenerating,
                         pendingWave, canvasVars>>]_vars

\* the second wave has started and its first wave's advice has not resolved;
\* an advice result has just arrived
C16_Witness ==
  /\ gameState.wave = 2 /\ gameState.isPlaying /\ 1 \in pendingAdvice
  /\ lastEvent.kind = "advice" /\ lastEvent.adviceWave = 2

\* the request for a wave has failed: it was rejected, it has no text, its
\* text is no JSON, or its payload is no WaveComposition
FailedWave(response) ==
  \/ response.kind = "rejected"
  \/ response.text = <<>>
  \/ response.text[1] = NotJson
  \/ \E v \in Malformed : response.text[1] = Json(v)

\* C17: whenever the request for a wave fails, returns no text, returns
\* text that cannot be parsed or a payload that is no composition, generateWave
\* resolves to the fallback composition of that wave number.
C17_FailureGivesFallback ==
  (call.fn = "generateWave" /\ FailedWave(call.response))
    => call.result = generateFallbackWave(call.wave)

\* no usable credential: process or process.env undefined, the key missing,
\* empty or made of whitespace only
NoCredential(e) ==
  \/ ~e.process
  \/ ~e.env
  \/ e.API_KEY = <<>>
  \/ \A i \in 1..Len(e.API_KEY[1]) : e.API_KEY[1][i] = " "

CannedAdvice == {fallbackQuotes[i] : i \in 1..Len(fallbackQuotes)}

\* C18: without a usable credential isAIOnline is false, no request is made,
\* generateWave resolves to the fallback wave and getTacticalAdvice to one of
\* the canned strings.
C18_NoCredentialNoRequest ==
  NoCredential(env) =>
    /\ ~isAIOnline(env)
    /\ call.fn = "isAIOnline" => call.result = FALSE
    /\ call.fn = "generateWave"
         => ~call.requested /\ call.result = generateFallbackWave(call.wave)
    /\ call.fn = "getTacticalAdvice"
         => ~call.requested /\ call.result \in CannedAdvice

\* the key is made of whitespace only and a wave has been asked for
C18_Witness ==
  /\ env.process /\ env.env /\ env.API_KEY # <<>> /\ Len(env.API_KEY[1]) = MaxKeyLen
  /\ NoCredential(env)
  /\ call.fn = "generateWave" /\ call.wave = 3

Rank(type) ==
  CASE type = "GRUNT" -> 1 [] type = "SCOUT" -> 2 [] type = "TANK" -> 3
    [] type = "BOSS" -> 4 [] OTHER -> 0

HasGroup(groups, type) == \E i \in 1..Len(groups) : groups[i].type = type

\* C19: the fallback of wave w lists a GRUNT group first, a SCOUT group iff
\* w >= 2, a TANK group iff w >= 4 and w is even, a BOSS group iff w is a
\* multiple of 10, in that order, nothing else, each with a count of 1 or more.
C19_FallbackGroups ==
  (call.fn = "generateWave" /\ ~call.requested) =>
    LET w == call.wave
        groups == call.result.enemies
    IN /\ Len(groups) >= 1 /\ groups[1].type = "GRUNT"
       /\ HasGroup(groups, "SCOUT") <=> w >= 2
       /\ HasGroup(groups, "TANK") <=> (w >= 4 /\ w % 2 = 0)
       /\ HasGroup(groups, "BOSS") <=> w % 10 = 0
       /\ \A i \in 1..Len(groups) : Rank(groups[i].type) > 0 /\ groups[i].count >= 1
       /\ \A i, j \in 1..Len(groups) :
            i < j => Rank(groups[i].type) < Rank(groups[j].type)

\* the fallback of a wave with the four groups
C19_Witness ==
  /\ call.fn = "generateWave" /\ ~call.requested
  /\ call.wave >= 4 /\ call.wave % 10 = 0
  /\ Len(call.result.enemies) = 4

\* C20: the fallback of a multiple of 10 has exactly one BOSS group, of
\* count 1, whose hp multiplier is 4 times the difficulty multiplier of the
\* wave or more; the fallback of any other wave has none.
C20_BossEveryTenth ==
  (call.fn = "generateWave" /\ ~call.requested) =>
    LET w == call.wave
        groups == call.result.enemies
        bosses == {i \in 1..Len(groups) : groups[i].type = "BOSS"}
    IN IF w % 10 = 0
         THEN /\ Cardinality(bosses) = 1
              /\ \A i \in bosses :
                   /\ groups[i].count = 1
                   /\ groups[i].hpMultiplier >= 4 * DifficultyMult(w)
                   /\ groups[i].hpMultiplier >= 4 * diffMod(w)
         ELSE bosses = {}

\* the fallback of wave 10
C20_Witness ==
  /\ call.fn = "generateWave" /\ ~call.requested /\ call.wave = 10
  /\ HasGroup(call.result.enemies, "BOSS")

\* C21: the GRUNT group of the fallback has floor(5 x difficultyMod) enemies,
\* difficultyMod being the multiplier generateWave was called with; its
\* interval is 20 frames or more and does not grow with the wave number.
C21_GruntsByDifficulty ==
  (call.fn = "generateWave" /\ ~call.requested) =>
    LET grunts == call.result.enemies[1] IN
      /\ grunts.type = "GRUNT"
      /\ grunts.count = (5 * call.difficultyMod) \div 100
      /\ grunts.interval >= 20
      /\ \A w \in 1..call.wave : FallbackEnemies(w)[1].interval >= grunts.interval

\* an update that ran
Ran == IsUpdate /\ lastEvent'.ran

SeqIds(ens) == [i \in 1..Len(ens) |-> ens[i].id]

InSeq(x, seq) == \E i \in 1..Len(seq) : seq[i] = x

\* C22: the list the towers read in an update holds no enemy the update found
\* at hit points <= 0 and none that leaked in it, and every projectile
\* created in the update targets an enemy of that list, whose hit points are
\* above 0.
C22_FiresAtListed ==
  [][Ran =>
       LET ev == lastEvent' IN
         /\ \A i \in 1..Len(ev.walked) :
              (ev.walked[i].hp <= 0 \/ InSeq(ev.walked[i].id, ev.leaked))
                => ev.walked[i].id \notin Ids(ev.seen)
         /\ \A i \in 1..Len(enemies) : enemies[i].hp <= 0 => enemies[i].id \notin Ids(ev.seen)
         /\ \A j \in 1..Len(ev.shots) :
              /\ ev.shots[j].projectile.targetId \in Ids(ev.seen)
              /\ ById(ev.seen, ev.shots[j].projectile.targetId).hp > 0
              /\ ~InSeq(ev.shots[j].projectile.targetId, ev.leaked)]_vars

\* a tower has just fired in an update that removed an enemy
C22_Witness ==
  /\ lastEvent.kind = "update" /\ lastEvent.ran
  /\ Len(lastEvent.shots) >= 1
  /\ Len(lastEvent.walked) > Len(lastEvent.seen)

\* the enemy is within the range of the tower
Within(t, e) ==
  (t.x - e.x) * (t.x - e.x) + (t.y - e.y) * (t.y - e.y)
    <= (TOWER_STATS[t.type].range * UNIT) * (TOWER_STATS[t.type].range * UNIT)

\* the shots of the event that the tower of index i fired
ShotsOf(ev, i) == {j \in 1..Len(ev.shots) : ev.shots[j].tower = i}

\* C23: a tower fires at most one projectile in an update; its target is in
\* range and no enemy in range has travelled farther; the projectile leaves
\* from the tower with the tower's damage, is area-of-effect iff the tower is
\* a CANNON and slows iff it is a SLOW tower; a tower with no enemy in range
\* fires nothing and its cooldown is not reset.
C23_Targeting ==
  [][Ran =>
       LET ev == lastEvent' IN
         /\ Len(towers') = Len(towers)
         /\ ev.fired = Len(ev.shots)
         /\ Len(projectiles') = Len(projectiles) + Len(ev.shots) - ev.impacts - ev.discarded
         /\ \A i \in 1..Len(towers) :
              /\ Cardinality(ShotsOf(ev, i)) <= 1
              /\ \A j \in ShotsOf(ev, i) :
                   LET p == ev.shots[j].projectile
                       target == ById(ev.seen, p.targetId)
                   IN /\ p.targetId \in Ids(ev.seen)
                      /\ Within(towers[i], target)
                      /\ \A k \in 1..Len(ev.seen) :
                           Within(towers[i], ev.seen[k])
                             => ev.seen[k].distanceTraveled <= target.distanceTraveled
                      /\ p.x = towers[i].x /\ p.y = towers[i].y
                      /\ p.damage = TOWER_STATS[towers[i].type].damage
                      /\ p.isAoE <=> towers[i].type = "CANNON"
                      /\ p.slowEffect > 0 <=> towers[i].type = "SLOW"
                      /\ p.slowEffect \in {0, SLOW_FRAMES}
                      /\ towers'[i].cooldownTimer = TOWER_STATS[towers[i].type].cooldown
              /\ (\A k \in 1..Len(ev.seen) : ~Within(towers[i], ev.seen[k]))
                   => /\ ShotsOf(ev, i) = {}
                      /\ towers'[i].cooldownTimer <= towers[i].cooldownTimer]_vars

\* a tower has just fired at an enemy that is not the first of the list in
\* its range, and another tower, ready to fire, has no enemy in range
C23_Witness ==
  /\ lastEvent.kind = "update" /\ lastEvent.ran
  /\ \E j \in 1..Len(lastEvent.shots) :
       LET t == towers[lastEvent.shots[j].tower]
           id == lastEvent.shots[j].projectile.targetId
       IN \E k, m \in 1..Len(lastEvent.seen) :
            /\ k < m /\ lastEvent.seen[m].id = id /\ Within(t, lastEvent.seen[k])
  /\ \E i \in 1..Len(towers) :
       /\ towers[i].cooldownTimer = 0
       /\ \A k \in 1..Len(lastEvent.seen) : ~Within(towers[i], lastEvent.seen[k])

\* C24, as stated: a tower whose cooldown is above 0 when an update starts
\* only decrements it in that update and fires nothing.
C24_CoolingTowerIdle ==
  [][Ran =>
       \A i \in 1..Len(towers) :
         towers[i].cooldownTimer > 0
           => /\ towers'[i].cooldownTimer = towers[i].cooldownTimer - 1
              /\ ShotsOf(lastEvent', i) = {}]_vars

\* C24, amended: a tower whose cooldown is above 1 when an update starts only
\* decrements it and fires nothing; a tower fires only if its cooldown, after
\* the decrement of the update, is 0 or less, that is if it started the update
\* at 1 or less, and then it fires iff an enemy is in its range; a tower that
\* does not fire ends the update with its cooldown decremented, not below 0.
C24_FiresWhenCooled ==
  [][Ran =>
       LET ev == lastEvent' IN
         \A i \in 1..Len(towers) :
           LET t == towers[i]
               ready == t.cooldownTimer <= 1
               inRange == \E k \in 1..Len(ev.seen) : Within(t, ev.seen[k])
           IN /\ t.cooldownTimer > 1
                   => /\ towers'[i].cooldownTimer = t.cooldownTimer - 1
                      /\ ShotsOf(ev, i) = {}
              /\ ShotsOf(ev, i) # {} <=> (ready /\ inRange)
              /\ ShotsOf(ev, i) = {}
                   => towers'[i].cooldownTimer = Max(0, t.cooldownTimer - 1)
              /\ towers'[i].cooldownTimer >= 0]_vars

\* a tower that started the update with a cooldown of 1 has just fired, and
\* another tower is in the middle of its cooldown
C24_Witness ==
  /\ lastEvent.kind = "update" /\ lastEvent.ran
  /\ \E j \in 1..Len(lastEvent.shots) : lastEvent.shots[j].timer = 1
  /\ \E i \in 1..Len(towers) :
       /\ ShotsOf(lastEvent, i) = {}
       /\ towers[i].cooldownTimer > 0 /\ towers[i].cooldownTimer < TOWER_STATS[towers[i].type].cooldown

\* the distance the enemy of the list before the update travelled in it
Travelled(ev, e) == ById(ev.walked, e.id).distanceTraveled - e.distanceTraveled

\* C25: an enemy whose slow timer is above 0 when the movement step starts has
\* it decremented by 1 and moves at half its speed in that step; an enemy whose
\* timer is 0 moves at its full speed.
C25_SlowedWhileTimerRuns ==
  [][Ran =>
       \A i \in 1..Len(enemies) :
         LET e == enemies[i] IN
           ~AtBase(e) =>
             IF e.frozen > 0
               THEN /\ ById(lastEvent'.walked, e.id).frozen = e.frozen - 1
                    /\ 2 * Travelled(lastEvent', e) = e.speed
               ELSE /\ ById(lastEvent'.walked, e.id).frozen = 0
                    /\ Travelled(lastEvent', e) = e.speed]_vars

\* the impacts of the event that carry a slow duration and whose target is id
SlowHits(ev, id) ==
  {j \in 1..Len(ev.hits) : ev.hits[j].slowEffect > 0 /\ ev.hits[j].targetId = id}

\* C26: after an update the slow timer of an enemy that was the target of an
\* impact carrying a slow duration is exactly that duration, 60, whatever it
\* was; the timer of every other enemy is what the movement step left, so
\* that an impact without slow duration, and an impact on another enemy,
\* change no timer.
C26_SlowRefreshes ==
  [][Ran =>
       LET ev == lastEvent' IN
         /\ \A j \in 1..Len(ev.hits) :
              /\ ev.hits[j].slowEffect \in {0, SLOW_FRAMES}
              /\ ev.hits[j].slowEffect > 0 => ~ev.hits[j].isAoE
         /\ Ids(enemies') = Ids(ev.seen)
         /\ \A i \in 1..Len(enemies') :
              LET e == enemies'[i] IN
                IF SlowHits(ev, e.id) # {}
                  THEN e.frozen = 60
                  ELSE e.frozen = ById(ev.seen, e.id).frozen]_vars

\* a slow projectile has just struck an enemy whose timer was running, while
\* the timer of another enemy runs on
C26_Witness ==
  /\ lastEvent.kind = "update" /\ lastEvent.ran
  /\ \E i, k \in 1..Len(enemies) :
       /\ SlowHits(lastEvent, enemies[i].id) # {}
       /\ ById(lastEvent.seen, enemies[i].id).frozen \in 1..(SLOW_FRAMES - 1)
       /\ enemies[i].frozen = SLOW_FRAMES
       /\ i # k /\ enemies[k].frozen \in 1..(SLOW_FRAMES - 1)

\* the enemies of the list that have no next waypoint
NoNextWaypoint(ens) == {i \in 1..Len(ens) : ens[i].pathIndex + 1 >= Len(PATH_WAYPOINTS)}

\* C27: an update removes from the list every enemy it finds without a next
\* waypoint, takes exactly one life for each and credits no bounty for any of
\* them; no enemy ever costs a life twice.
C27_LeakOnce ==
  /\ [][Ran =>
          LET ev == lastEvent'
              gone == NoNextWaypoint(enemies)
          IN /\ \A i \in gone :
                  /\ enemies[i].id \notin Ids(enemies')
                  /\ InSeq(enemies[i].id, ev.leaked)
                  /\ \A j \in 1..Len(ev.bounties) : ev.bounties[j].id # enemies[i].id
             /\ Len(ev.leaked) = Cardinality(gone)
             /\ gameState'.lives = gameState.lives - Cardinality(gone)
             /\ gameState'.money = money + BountySum(ev.bounties)
             /\ leakedIds' = leakedIds \o ev.leaked]_vars
  /\ [](\A i, j \in 1..Len(leakedIds) : i # j => leakedIds[i] # leakedIds[j])
  /\ [](gameState.lives = INITIAL_LIVES - Len(leakedIds))

\* an enemy has just reached the base, after another, in an update that
\* credited the bounty of a third
C27_Witness ==
  /\ lastEvent.kind = "update" /\ lastEvent.ran
  /\ Len(lastEvent.leaked) >= 1 /\ Len(leakedIds) >= 2
  /\ Len(lastEvent.bounties) >= 1

\* the hit points of the enemy w of the list after the movement step, before
\* the update: those of the list, or those it was created with in the update
HpAtStart(ev, w) ==
  IF w.id \in Ids(enemies) THEN ById(enemies, w.id).hp ELSE ev.born[1].hp

\* the damage of the impacts of the event that struck the enemy
RECURSIVE DamageTo(_, _)
DamageTo(hits, id) ==
  IF hits = <<>> THEN 0
  ELSE (IF InSeq(id, Head(hits).struck) THEN Head(hits).damage * HP_UNIT ELSE 0)
       + DamageTo(Tail(hits), id)

\* the impacts of an update take from the hit points of each enemy the damage
\* of the projectiles that struck it and nothing else; tower firing and particle
\* decay, which come with them, change none
OnlyImpactsDamage ==
  Ran => \A i \in 1..Len(enemies') :
           enemies'[i].hp = ById(lastEvent'.seen, enemies'[i].id).hp
                              - DamageTo(lastEvent'.hits, enemies'[i].id)

\* a step that is no running update (a click on the canvas, a tower placed, an
\* update that returns at once) changes no hit points
OthersKeepHp ==
  ~Ran => /\ Len(enemies') = Len(enemies)
          /\ \A i \in 1..Len(enemies) : enemies'[i].hp = enemies[i].hp

\* C28, as stated: spawning, movement and leak handling change the hit points
\* of no enemy; impacts take the damage of the projectile; nothing else
\* changes hit points.
C28_OnlyDamageChangesHp ==
  [][/\ Ran => \A i \in 1..Len(lastEvent'.walked) :
                 lastEvent'.walked[i].hp = HpAtStart(lastEvent', lastEvent'.walked[i])
     /\ OnlyImpactsDamage
     /\ OthersKeepHp]_vars

\* C28, amended: leak handling sets the hit points of the leaking enemy to 0,
\* in the update that removes it; spawning and movement change the hit points
\* of no enemy; impacts take the damage of the projectile; nothing else
\* changes hit points.
C28_DamageOrLeakChangesHp ==
  [][/\ Ran => \A i \in 1..Len(lastEvent'.walked) :
                 LET w == lastEvent'.walked[i] IN
                   /\ InSeq(w.id, lastEvent'.leaked)
                        => w.hp = 0 /\ w.id \notin Ids(enemies')
                   /\ ~InSeq(w.id, lastEvent'.leaked)
                        => w.hp = HpAtStart(lastEvent', w)
     /\ OnlyImpactsDamage
     /\ OthersKeepHp]_vars

\* an enemy has just leaked in an update in which a projectile struck, and
\* an enemy of the list is damaged
C28_Witness ==
  /\ lastEvent.kind = "update" /\ lastEvent.ran
  /\ Len(lastEvent.leaked) >= 1 /\ Len(lastEvent.hits) >= 1
  /\ \E i \in 1..Len(enemies) : enemies[i].hp < enemies[i].maxHp

\* C29: an update creates one enemy at most; the enemy is of the type of the
\* group at the front of the queue, stands on waypoint 0 with path index 0,
\* slow timer 0, distance 0 and hit points = maximum hit points = base hit
\* points of the type x hp multiplier of the group; the front group loses one
\* of its count, and leaves the queue only when none is left; the groups
\* behind it are untouched; no other step creates an enemy.
C29_SpawnFrontGroup ==
  [][IF Ran
       THEN LET ev == lastEvent' IN
              /\ Len(ev.born) <= 1 /\ ev.spawned = Len(ev.born)
              /\ Len(ev.walked) = Len(enemies) + Len(ev.born)
              /\ Ids(enemies') \subseteq Ids(enemies) \cup {ev.born[j].id : j \in 1..Len(ev.born)}
              /\ ev.born = <<>> => enemiesToSpawn' = enemiesToSpawn
              /\ ev.born # <<>> =>
                   /\ enemiesToSpawn # <<>>
                   /\ LET g == enemiesToSpawn[1]
                          b == ev.born[1]
                      IN /\ b.type = g.type
                         /\ b.x = PATH_WAYPOINTS[1].x * UNIT /\ b.y = PATH_WAYPOINTS[1].y * UNIT
                         /\ b.pathIndex = 0 /\ b.frozen = 0 /\ b.distanceTraveled = 0
                         /\ b.hp = b.maxHp
                         /\ 100 * b.hp = ENEMY_STATS[g.type].hp * g.hpMultiplier * HP_UNIT
                         /\ b.id \notin Ids(enemies)
                         /\ ev.walked[Len(ev.walked)].id = b.id
                         /\ enemiesToSpawn' =
                              IF g.count > 1
                                THEN <<[g EXCEPT !.count = g.count - 1]>> \o Tail(enemiesToSpawn)
                                ELSE Tail(enemiesToSpawn)
       ELSE Ids(enemies') = Ids(enemies)]_vars

\* an enemy of the second group has just been created, after the enemy of
\* the first group, whose hp multiplier is not 1
C29_Witness ==
  /\ lastEvent.kind = "update" /\ lastEvent.born # <<>>
  /\ waveComposition # <<>> /\ Len(waveComposition[1].enemies) >= 2
  /\ waveComposition[1].enemies[1].hpMultiplier # 100
  /\ lastEvent.born[1].type = waveComposition[1].enemies[2].type
  /\ lastEvent.born[1].type # waveComposition[1].enemies[1].type
  /\ Len(enemiesToSpawn) = Len(waveComposition[1].enemies) - 1

\* C30: the render step changes no game state: the enemies, towers,
\* projectiles, particles, the spawn queue, the money, lives, wave and flags are
\* after a call of draw what they were before it.
C30_DrawKeepsState ==
  [][lastEvent'.kind = "draw" => UNCHANGED <<appVars, canvasVars>>]_vars

\* draw() has painted towers, a wounded enemy, projectiles and particles, with
\* enemies still to spawn
C30_Witness ==
  /\ lastEvent.kind = "draw"
  /\ Len(lastEvent.drawn[1].towers) > 0
  /\ Len(lastEvent.drawn[1].projectiles) > 0
  /\ Len(lastEvent.drawn[1].particles) > 0
  /\ \E i \in 1..Len(enemies) : enemies[i].hp < enemies[i].maxHp
  /\ Len(enemiesToSpawn) > 0

\* a tower without its cooldown timer
Built(t) == [t EXCEPT !.cooldownTimer = 0]

\* C31: towers are never removed and change in their cooldown only: on every
\* step (simulation step, wave start, wave completion, placement) the towers
\* there stay, in their places in the list, with the type, position, range and
\* damage they were created with.
C31_TowersKept ==
  [][/\ Len(towers') >= Len(towers)
     /\ \A i \in 1..Len(towers) : Built(towers'[i]) = Built(towers[i])
     /\ \A i \in 1..Len(towers') :
          Built(towers'[i]) = NewTower(towers'[i].type, towers'[i].x \div UNIT,
                                       towers'[i].y \div UNIT)]_vars

\* two towers stand in the second wave, one placed after the other had fired,
\* and one of them is cooling down
C31_Witness ==
  /\ Len(towers) >= 2
  /\ gameState.wave >= 2
  /\ gameState.isPlaying
  /\ \E i \in 1..Len(towers) : towers[i].cooldownTimer > 0

\* C32: particles have no gameplay effect: a second run of a wave that starts
\* from the state the first run started from but for the particle list, and is
\* given the same frames and clicks, has after every step the enemies, towers,
\* projectiles, spawn queue, money, lives, wave and flags of the first run.
C32_ParticlesNoEffect ==
  (twin.run = 2 /\ twin.at > 0) => Gameplay = twin.tape[twin.at]

\* the second run has come to the end of a wave in which a tower was placed and
\* enemies were killed, with particles other than those of the first run
C32_Witness ==
  /\ twin.run = 2
  /\ twin.at = Len(twin.script)
  /\ ~gameState.isPlaying
  /\ Len(towers) > Len(twin.sc.towers)
  /\ Len(credited) > 0
  /\ \E k \in 1..twin.at :
       /\ twin.script[k].cmd = "frame"
       /\ twin.tape[k][1].isPlaying

\* the advice request was made and failed
FailedAdvice == call.requested /\ call.response.kind = "rejected"

\* C33: without a credential and also when the advice request fails,
\* getTacticalAdvice resolves with the canned string at the index (wave number
\* mod length of the list) of the rotating list.
C33_AdviceFallback ==
  (call.fn = "getTacticalAdvice" /\ (NoCredential(env) \/ FailedAdvice))
    => call.result = fallbackQuotes[(call.wave % Len(fallbackQuotes)) + 1]

\* the half of C33 that holds: without a credential, the string of the list at
\* that index; when the request fails, a string too, but the same for all waves
C33_NoCredentialRotates ==
  call.fn = "getTacticalAdvice" =>
    /\ NoCredential(env)
         => call.result = fallbackQuotes[(call.wave % Len(fallbackQuotes)) + 1]
    /\ FailedAdvice => call.result = "Tactical uplink unstable."

\* C34: no enemy is both killed and leaked: an enemy a bounty was credited
\* for never costs a life, and an enemy that cost a life never credits a
\* bounty.
C34_KilledOrLeaked ==
  \A i \in 1..Len(credited) : \A j \in 1..Len(leakedIds) : credited[i] # leakedIds[j]

\* the wave has ended: onWaveComplete was called or the game is over
WaveEnded == waveSignals > 0 \/ gameState.isGameOver

\* C35: with the animation frames scheduled fairly, every started wave with a
\* finite spawn queue ends, whatever the towers: wave-complete is signalled or
\* the game is over.
C35_WaveEnds == gameState.isPlaying ~> WaveEnded

\* the groups of the wave are of the types of ENEMY_STATS
KnownTypes ==
  \A w \in 1..Len(waveComposition) : \A g \in 1..Len(waveComposition[w].enemies) :
    waveComposition[w].enemies[g].type \in EnemyType

\* the part of C35 that holds: a wave of groups of known types ends
C35_KnownWaveEnds == (gameState.isPlaying /\ KnownTypes) ~> WaveEnded

\* the sum of the counts of the groups
RECURSIVE SumCounts(_)
SumCounts(groups) ==
  IF groups = <<>> THEN 0 ELSE Head(groups).count + SumCounts(Tail(groups))

\* C36: when wave-complete is signalled, the enemies spawned during the wave
\* are as many as the sum of the counts of the groups of its composition, a
\* group of count 0 contributing none.
C36_SpawnsSumOfCounts ==
  [][(IsUpdate /\ lastEvent'.complete)
       => waveSpawned' = SumCounts(waveComposition[1].enemies)]_vars

\* every group has an enemy at least
PositiveCounts ==
  \A w \in 1..Len(waveComposition) : \A g \in 1..Len(waveComposition[w].enemies) :
    waveComposition[w].enemies[g].count >= 1

\* the part of C36 that holds: the same, for groups of one enemy or more
C36_PositiveCountsSpawned ==
  [][(IsUpdate /\ lastEvent'.complete /\ PositiveCounts)
       => waveSpawned' = SumCounts(waveComposition[1].enemies)]_vars

\* C37: one wave-generation request at most is in flight: startNextWave called
\* while a wave is playing or a request is in flight changes nothing; the wave
\* number grows by one when a request completes and changes at no other step.
C37_OneRequestAtATime ==
  [][/\ (lastEvent'.kind = "start" /\ (gameState.isPlaying \/ isWaveGenerating))
          => UNCHANGED <<appVars, canvasVars>>
     /\ (pendingWave' # 0) = isWaveGenerating'
     /\ lastEvent'.kind = "waveReady"
          => /\ isWaveGenerating /\ ~isWaveGenerating'
             /\ gameState'.wave = gameState.wave + 1
     /\ lastEvent'.kind # "waveReady" => gameState'.wave = gameState.wave]_vars

\* startNextWave was called during the second wave and was ignored
C37_Witness ==
  /\ lastEvent.kind = "start"
  /\ lastEvent.result = "ignored"
  /\ gameState.isPlaying
  /\ gameState.wave = 2

\* C38: the generating flag does not get stuck: once startNextWave has set
\* isWaveGenerating it is reset when the request settles, resolved or
\* rejected; a rejected request leaves the wave number, isPlaying and the wave
\* composition as they were.
C38_FlagReleased ==
  /\ isWaveGenerating ~> ~isWaveGenerating
  /\ [][lastEvent'.kind \in {"waveReady", "waveFailed"}
          => isWaveGenerating /\ ~isWaveGenerating']_vars
  /\ [][lastEvent'.kind = "waveFailed"
          => gameState' = gameState /\ waveComposition' = waveComposition]_vars

\* the request for the first wave was rejected: no wave is playing and the
\* flag is down again
C38_Witness ==
  /\ lastEvent.kind = "waveFailed"
  /\ getClientThrows(env)
  /\ ~isWaveGenerating
  /\ pendingWave = 0
  /\ gameState.wave = 0
  /\ ~gameState.isPlaying
  /\ waveComposition = <<>>

\* -------------------------------------------------- the rhythm of a tower
\* the towers that pushed a projectile in the step that just ran
Firing(ev) == {ev.shots[j].tower : j \in 1..Len(ev.shots)}

\* C39: two consecutive projectiles of a tower are at least the cooldown of
\* its type apart, counted in update() calls that ran, and the cooldownTimer
\* of every tower is within 0 and that cooldown
C39_CooldownApart ==
  /\ [][\A i \in Firing(lastEvent') :
          sinceShot[i] + 1 >= TOWER_STATS[towers[i].type].cooldown]_vars
  /\ [](\A i \in 1..Len(towers) :
          /\ towers[i].cooldownTimer >= 0
          /\ towers[i].cooldownTimer <= TOWER_STATS[towers[i].type].cooldown)

\* a tower fired, cooled down for its whole period and fired again in the step
\* its timer ran out
C39_Witness ==
  /\ lastEvent.kind = "update"
  /\ \E i \in Firing(lastEvent) :
       /\ sinceShot[i] = 0
       /\ towers[i].cooldownTimer = TOWER_STATS[towers[i].type].cooldown
       /\ \E j \in 1..Len(lastEvent.shots) :
            lastEvent.shots[j].tower = i /\ lastEvent.shots[j].timer = 1

====
